---- MODULE Spec2Model ----
(***************************************************************************)
(* Peg Solitaire: board topology (BoardGraph), peg occupancy with undo     *)
(* (GameState) and the grid game of main.py (PegSolitaireGUI).             *)
(* Hole ids are 0-based as in the source; TLA+ sequences are 1-based, so   *)
(* hole i of a list is element i+1 of the sequence.                        *)
(***************************************************************************)
EXTENDS Integers, Sequences, FiniteSets, TLC

VARIABLES
    version,        \* BoardGraph.version / PegSolitaireGUI.version
    \* ---- BoardGraph under construction
    tpc,            \* position in BoardGraph.__init__
    ti,             \* loop index of the running loop
    td,             \* direction index of _precompute_jumps (1..4)
    nodes,          \* BoardGraph.nodes
    node_to_id,     \* BoardGraph.node_to_id
    adj_matrix,     \* BoardGraph.adj_matrix
    valid_jumps,    \* BoardGraph.valid_jumps
    neighbors,      \* BoardGraph.neighbors
    \* ---- GameState
    pegs,           \* GameState.pegs
    history,        \* GameState.history
    op,             \* the GameState method called last
    prevOp,         \* the method called before that
    arg,            \* its move argument
    ret,            \* its return value when that is True, False or None
    ret_moves,      \* its return value when that is a list of moves
    pre,            \* pegs when it was called
    applied,        \* number of execute_move calls so far
    undone,         \* number of undo calls that returned True
    illegal,        \* number of execute_move calls with a move not legal
    occ,            \* occupancies after each move not undone yet
    \* ---- PegSolitaireGUI (main.py)
    board,          \* the 7 x 7 grid: -1 no hole, 0 empty, 1 peg
    selected,       \* the selected cell, <<>> for None
    move_count,
    pegs_count,
    game_over_flag,
    move_history,
    auto_play_running,
    timers,         \* greedy_auto_play calls scheduled with root.after
    hint,           \* the move the dialog of greedy_hint shows, <<>> for none
    m_last,         \* "jump" when the last handler was a click that made a jump,
                    \* "undo" when it was an undo_move that took a board back
    m_pre,          \* the board before the jump when m_last is "jump"
    \* ---- GameFrame with its solver (pegdc.py, Pegsolitaire5.py); the game
    \* of the frame is pegs and history
    variant,        \* "exhaustive": pegdc.py, "region": Pegsolitaire5.py
    selected_node,  \* -1 for None
    autoplay_running,
    autoplay_moves,
    autoplay_index,
    searching,
    step_timers,    \* run_autoplay_step calls scheduled with after
    solver,         \* the solver object self.solver refers to
    solvers,        \* the solver objects: search_cancel, callback,
                    \* solution_cache (<<>> for None and for []) and
                    \* search_thread (0 for None and for a thread that ended)
    workers,        \* the search threads
    after_queue,    \* the callbacks scheduled with after(0, ...)
    gui,            \* whether the GUI thread waits in join
    clicks,         \* clicks on the board and the buttons that had an effect
    f_last          \* "gui", or "worker"/"deliver" after a step of a thread

topoVars == <<tpc, ti, td, nodes, node_to_id, adj_matrix, valid_jumps, neighbors>>
gameVars == <<pegs, history, op, prevOp, arg, ret, ret_moves, pre, applied, undone, illegal, occ>>
mainVars == <<board, selected, move_count, pegs_count, game_over_flag, move_history,
              auto_play_running, timers, hint, m_last, m_pre>>
gameGhost == <<op, prevOp, arg, ret, ret_moves, pre, applied, undone, illegal, occ>>
frameVars == <<variant, selected_node, autoplay_running, autoplay_moves, autoplay_index,
               searching, step_timers, solver, solvers, workers, after_queue, gui,
               clicks, f_last>>
vars == <<version, topoVars, gameVars, mainVars, frameVars>>

----------------------------------------------------------------------------
(* Bounds *)
MaxMoves == 3       \* execute_move calls in one run
MaxIllegal == 1     \* of which with a move that is not legal
MaxJumps == 2       \* jumps made on one board of main.py
MaxTimers == 1      \* greedy_auto_play calls pending at one time
MaxWorkers == 2     \* search threads alive at one time
MaxClicks == 3      \* clicks on the board and the buttons of a pegdc.py frame
MaxRegionClicks == 2   \* the same of a Pegsolitaire5.py frame
MaxRequests == 2    \* calls of start_solving and cancel_solving by one client
MaxStepTimers == 1  \* run_autoplay_step calls pending at one time
MaxCalls == 12      \* calls of _solve one thread makes
FromEnd == 4        \* jumps of the line left to play when a pegdc.py frame starts

Versions == {"english", "european"}

Abs(x) == IF x < 0 THEN -x ELSE x

----------------------------------------------------------------------------
(* BoardGraph *)

\* the layout strings of _build_board_layout, one character per element
Layout(v) ==
    IF v = "english"
    THEN << <<" ", " ", "X", "X", "X", " ">>,
            <<" ", " ", "X", "X", "X", " ">>,
            <<"X", "X", "X", "X", "X", "X", "X">>,
            <<"X", "X", "X", "X", "X", "X", "X">>,
            <<"X", "X", "X", "X", "X", "X", "X">>,
            <<" ", " ", "X", "X", "X", " ">>,
            <<" ", " ", "X", "X", "X", " ">> >>
    ELSE << <<" ", " ", "X", "X", "X", " ">>,
            <<" ", "X", "X", "X", "X", "X", " ">>,
            <<"X", "X", "X", "X", "X", "X", "X">>,
            <<"X", "X", "X", "X", "X", "X", "X">>,
            <<"X", "X", "X", "X", "X", "X", "X">>,
            <<" ", "X", "X", "X", "X", "X", " ">>,
            <<" ", " ", "X", "X", "X", " ">> >>

\* the coordinates one row of the layout appends to nodes (inner loop over c)
RowNodes(v, r) ==
    LET row == Layout(v)[r + 1]
    IN  SelectSeq([k \in 1..Len(row) |-> <<r, k - 1>>],
                  LAMBDA rc : row[rc[2] + 1] = "X")

\* node_to_id after the coordinates new were appended to a list ns
ExtendIds(ids, ns, new) ==
    [rc \in DOMAIN ids \cup {new[k] : k \in 1..Len(new)} |->
        IF rc \in DOMAIN ids THEN ids[rc]
        ELSE Len(ns) + (CHOOSE k \in 1..Len(new) : new[k] = rc) - 1]

RECURSIVE NodesUpTo(_, _)
NodesUpTo(v, r) ==
    IF r = 0 THEN <<>> ELSE NodesUpTo(v, r - 1) \o RowNodes(v, r - 1)

RECURSIVE IdsUpTo(_, _)
IdsUpTo(v, r) ==
    IF r = 0 THEN <<>>
    ELSE ExtendIds(IdsUpTo(v, r - 1), NodesUpTo(v, r - 1), RowNodes(v, r - 1))

directions == << <<-1, 0>>, <<1, 0>>, <<0, -1>>, <<0, 1>> >>

\* abs(r1 - r2) + abs(c1 - c2) of holes i and j
GridDistance(ns, i, j) ==
    Abs(ns[i + 1][1] - ns[j + 1][1]) + Abs(ns[i + 1][2] - ns[j + 1][2])

\* JumpStep landing one step beyond the start instead of two
JumpStep_one_step(ns, ids, i, d) ==
    LET r == ns[i + 1][1]
        c == ns[i + 1][2]
        dr == directions[d][1]
        dc == directions[d][2]
        mid == <<r + dr, c + dc>>
        end == <<r + dr, c + dc>>
    IN  IF mid \in DOMAIN ids /\ end \in DOMAIN ids
        THEN << <<i, ids[mid], ids[end]>> >>
        ELSE <<>>

\* JumpStep leaving out the last direction
JumpStep_three_directions(ns, ids, i, d) ==
    LET r == ns[i + 1][1]
        c == ns[i + 1][2]
        dr == directions[d][1]
        dc == directions[d][2]
        mid == <<r + dr, c + dc>>
        end == <<r + 2 * dr, c + 2 * dc>>
    IN  IF d < Len(directions) /\ mid \in DOMAIN ids /\ end \in DOMAIN ids
        THEN << <<i, ids[mid], ids[end]>> >>
        ELSE <<>>

\* what one pass of the inner loop of _precompute_jumps appends for hole i
\* and direction d
JumpStep(ns, ids, i, d) ==
    LET r == ns[i + 1][1]
        c == ns[i + 1][2]
        dr == directions[d][1]
        dc == directions[d][2]
        mid == <<r + dr, c + dc>>
        end == <<r + 2 * dr, c + 2 * dc>>
    IN  IF mid \in DOMAIN ids /\ end \in DOMAIN ids
        THEN << <<i, ids[mid], ids[end]>> >>
        ELSE <<>>

\* what the four passes of the inner loop append for hole i
JumpsOf(ns, ids, i) ==
    JumpStep(ns, ids, i, 1) \o JumpStep(ns, ids, i, 2)
        \o JumpStep(ns, ids, i, 3) \o JumpStep(ns, ids, i, 4)

\* valid_jumps after the holes lo..hi-1 were visited in order
RECURSIVE JumpsBetween(_, _, _, _)
JumpsBetween(ns, ids, lo, hi) ==
    IF hi <= lo THEN <<>>
    ELSE IF hi = lo + 1 THEN JumpsOf(ns, ids, lo)
    ELSE LET half == (lo + hi) \div 2
         IN  JumpsBetween(ns, ids, lo, half) \o JumpsBetween(ns, ids, half, hi)

EnglishNodes == NodesUpTo("english", 7)
EuropeanNodes == NodesUpTo("european", 7)
EnglishIds == IdsUpTo("english", 7)
EuropeanIds == IdsUpTo("european", 7)
EnglishJumps == JumpsBetween(EnglishNodes, EnglishIds, 0, Len(EnglishNodes))
EuropeanJumps == JumpsBetween(EuropeanNodes, EuropeanIds, 0, Len(EuropeanNodes))

\* the finished graph of a version: graph.nodes, graph.node_to_id, graph.valid_jumps
GraphNodes(v) == IF v = "english" THEN EnglishNodes ELSE EuropeanNodes
GraphIds(v) == IF v = "english" THEN EnglishIds ELSE EuropeanIds
GraphJumps(v) == IF v = "english" THEN EnglishJumps ELSE EuropeanJumps

\* the graph is not under construction (specifications of the game)
TopoIdle ==
    /\ tpc = "off" /\ ti = 0 /\ td = 1
    /\ nodes = <<>> /\ node_to_id = <<>> /\ adj_matrix = <<>>
    /\ valid_jumps = <<>> /\ neighbors = <<>>

\* BoardGraph.__init__ up to its first call
BoardGraphInit ==
    /\ tpc = "layout" /\ ti = 0 /\ td = 1
    /\ nodes = <<>> /\ node_to_id = <<>> /\ adj_matrix = <<>>
    /\ valid_jumps = <<>> /\ neighbors = <<>>

\* one row of the layout (one pass of the loop over r); after the last row
\* _build_adjacency_matrix starts with the n x n matrix of zeros
build_board_layout ==
    /\ tpc = "layout"
    /\ LET new == RowNodes(version, ti)
           n == Len(nodes) + Len(new)
       IN  /\ nodes' = nodes \o new
           /\ node_to_id' = ExtendIds(node_to_id, nodes, new)
           /\ IF ti + 1 < Len(Layout(version))
              THEN /\ ti' = ti + 1
                   /\ UNCHANGED <<tpc, adj_matrix>>
              ELSE /\ ti' = 0
                   /\ tpc' = "adjacency"
                   /\ adj_matrix' = [a \in 0..(n - 1) |-> [b \in 0..(n - 1) |-> 0]]
    /\ UNCHANGED <<td, valid_jumps, neighbors>>

\* one pass of the loop over i: the holes j > i next to hole i
build_adjacency_matrix ==
    /\ tpc = "adjacency"
    /\ LET n == Len(nodes)
           hit(a, b) == a = ti /\ b > ti /\ GridDistance(nodes, a, b) = 1
       IN  /\ adj_matrix' = [a \in 0..(n - 1) |-> [b \in 0..(n - 1) |->
                                IF hit(a, b) \/ hit(b, a) THEN 1 ELSE adj_matrix[a][b]]]
           /\ IF ti + 1 < n
              THEN ti' = ti + 1 /\ UNCHANGED tpc
              ELSE ti' = 0 /\ tpc' = "jumps"
    /\ UNCHANGED <<td, nodes, node_to_id, valid_jumps, neighbors>>

\* one pass of the inner loop: hole ti, direction td
precompute_jumps ==
    /\ tpc = "jumps"
    /\ valid_jumps' = valid_jumps \o JumpStep(nodes, node_to_id, ti, td)
    /\ IF td < Len(directions)
       THEN td' = td + 1 /\ UNCHANGED <<ti, tpc, neighbors>>
       ELSE /\ td' = 1
            /\ IF ti + 1 < Len(nodes)
               THEN ti' = ti + 1 /\ UNCHANGED <<tpc, neighbors>>
               ELSE /\ ti' = 0 /\ tpc' = "neighbors"
                    /\ neighbors' = [a \in 0..(Len(nodes) - 1) |-> <<>>]
    /\ UNCHANGED <<nodes, node_to_id, adj_matrix>>

\* one pass of the loop over i: the list of the holes j with adj_matrix[i][j]
precompute_neighbors ==
    /\ tpc = "neighbors"
    /\ LET n == Len(nodes)
       IN  /\ neighbors' = [neighbors EXCEPT ![ti] =
                    SelectSeq([k \in 1..n |-> k - 1], LAMBDA j : adj_matrix[ti][j] # 0)]
           /\ IF ti + 1 < n
              THEN ti' = ti + 1 /\ UNCHANGED tpc
              ELSE ti' = 0 /\ tpc' = "done"
    /\ UNCHANGED <<td, nodes, node_to_id, adj_matrix, valid_jumps>>

----------------------------------------------------------------------------
(* GameState *)

\* the test of get_legal_moves on a peg list p
Legal(p, move) == p[move[1]] = 1 /\ p[move[2]] = 1 /\ p[move[3]] = 0

RECURSIVE SumPegs(_, _)
SumPegs(p, n) == IF n = 0 THEN 0 ELSE SumPegs(p, n - 1) + p[n - 1]

\* sum(self.pegs)
get_peg_count(p) == SumPegs(p, Cardinality(DOMAIN p))

\* LegalMoves without the test of the landing hole
LegalMoves_ignores_end(v, p) ==
    SelectSeq(GraphJumps(v), LAMBDA j : p[j[1]] = 1 /\ p[j[2]] = 1)

\* the list get_legal_moves builds on a peg list p
LegalMoves(v, p) == SelectSeq(GraphJumps(v), LAMBDA j : Legal(p, j))

is_game_over(v, p) == Len(LegalMoves(v, p)) = 0

\* InitialPegs with the centre looked up as (row 4, column 4)
InitialPegs_off_centre(v) ==
    LET ids == GraphIds(v)
    IN  [i \in 0..(Len(GraphNodes(v)) - 1) |->
            IF <<4, 4>> \in DOMAIN ids /\ i = ids[<<4, 4>>] THEN 0 ELSE 1]

\* pegs after GameState.__init__
InitialPegs(v) ==
    LET ids == GraphIds(v)
    IN  [i \in 0..(Len(GraphNodes(v)) - 1) |->
            IF <<3, 3>> \in DOMAIN ids /\ i = ids[<<3, 3>>] THEN 0 ELSE 1]

GameStateInit ==
    /\ pegs = InitialPegs(version)
    /\ history = <<>>
    /\ op = "init" /\ prevOp = "none" /\ arg = <<>> /\ ret = "None" /\ ret_moves = <<>>
    /\ pre = pegs
    /\ applied = 0 /\ undone = 0 /\ illegal = 0
    /\ occ = <<pegs>>

\* execute_move without the removal of the jumped peg
execute_move_keeps_mid(move) ==
    /\ applied < MaxMoves
    /\ Legal(pegs, move) \/ illegal < MaxIllegal
    /\ history' = Append(history, pegs)
    /\ pegs' = [pegs EXCEPT ![move[1]] = 0, ![move[3]] = 1]
    /\ ret' = "True" /\ ret_moves' = <<>>
    /\ op' = "execute_move" /\ prevOp' = op /\ arg' = move /\ pre' = pegs
    /\ applied' = applied + 1
    /\ illegal' = IF Legal(pegs, move) THEN illegal ELSE illegal + 1
    /\ occ' = Append(occ, pegs')
    /\ UNCHANGED undone

\* execute_move pushing the live list instead of a copy: the snapshot
\* shows the pegs after the move
execute_move_aliased(move) ==
    /\ applied < MaxMoves
    /\ Legal(pegs, move) \/ illegal < MaxIllegal
    /\ pegs' = [pegs EXCEPT ![move[1]] = 0, ![move[2]] = 0, ![move[3]] = 1]
    /\ history' = Append(history, pegs')
    /\ ret' = "True" /\ ret_moves' = <<>>
    /\ op' = "execute_move" /\ prevOp' = op /\ arg' = move /\ pre' = pegs
    /\ applied' = applied + 1
    /\ illegal' = IF Legal(pegs, move) THEN illegal ELSE illegal + 1
    /\ occ' = Append(occ, pegs')
    /\ UNCHANGED undone

execute_move(move) ==
    /\ applied < MaxMoves
    /\ Legal(pegs, move) \/ illegal < MaxIllegal
    /\ history' = Append(history, pegs)
    /\ pegs' = [pegs EXCEPT ![move[1]] = 0, ![move[2]] = 0, ![move[3]] = 1]
    /\ ret' = "True" /\ ret_moves' = <<>>
    /\ op' = "execute_move" /\ prevOp' = op /\ arg' = move /\ pre' = pegs
    /\ applied' = applied + 1
    /\ illegal' = IF Legal(pegs, move) THEN illegal ELSE illegal + 1
    /\ occ' = Append(occ, pegs')
    /\ UNCHANGED undone

\* undo reporting success also when there is nothing to pop
undo_reports_true ==
    /\ IF history # <<>>
       THEN /\ pegs' = history[Len(history)]
            /\ history' = SubSeq(history, 1, Len(history) - 1)
            /\ undone' = undone + 1
            /\ occ' = IF Len(occ) > 1 THEN SubSeq(occ, 1, Len(occ) - 1) ELSE occ
       ELSE UNCHANGED <<pegs, history, undone, occ>>
    /\ ret' = "True"
    /\ ret_moves' = <<>>
    /\ op' = "undo" /\ prevOp' = op /\ arg' = <<>> /\ pre' = pegs
    /\ UNCHANGED <<applied, illegal>>

\* undo reading the last snapshot without removing it
undo_keeps_history ==
    /\ IF history # <<>>
       THEN /\ pegs' = history[Len(history)]
            /\ history' = history
            /\ ret' = "True"
            /\ undone' = undone + 1
            /\ occ' = IF Len(occ) > 1 THEN SubSeq(occ, 1, Len(occ) - 1) ELSE occ
       ELSE /\ ret' = "False"
            /\ UNCHANGED <<pegs, history, undone, occ>>
    /\ ret_moves' = <<>>
    /\ op' = "undo" /\ prevOp' = op /\ arg' = <<>> /\ pre' = pegs
    /\ UNCHANGED <<applied, illegal>>

undo ==
    /\ IF history # <<>>
       THEN /\ pegs' = history[Len(history)]
            /\ history' = SubSeq(history, 1, Len(history) - 1)
            /\ ret' = "True"
            /\ undone' = undone + 1
            /\ occ' = IF Len(occ) > 1 THEN SubSeq(occ, 1, Len(occ) - 1) ELSE occ
       ELSE /\ ret' = "False"
            /\ UNCHANGED <<pegs, history, undone, occ>>
    /\ ret_moves' = <<>>
    /\ op' = "undo" /\ prevOp' = op /\ arg' = <<>> /\ pre' = pegs
    /\ UNCHANGED <<applied, illegal>>

get_legal_moves ==
    /\ ret_moves' = LegalMoves(version, pegs) /\ ret' = "None"
    /\ op' = "get_legal_moves" /\ prevOp' = op /\ arg' = <<>> /\ pre' = pegs
    /\ UNCHANGED <<pegs, history, applied, undone, illegal, occ>>

----------------------------------------------------------------------------
(* PegSolitaireGUI (main.py) *)

\* the grid initial_board sets for a version
InitialBoard(v) ==
    IF v = "english"
    THEN [r \in 0..6 |-> [c \in 0..6 |->
            IF (r \in {0, 1, 5, 6}) /\ (c \in {0, 1, 5, 6}) THEN -1
            ELSE IF r = 3 /\ c = 3 THEN 0 ELSE 1]]
    ELSE [r \in 0..6 |-> [c \in 0..6 |->
            IF (r \in {0, 6} /\ c \in {0, 1, 5, 6}) \/ (r \in {1, 5} /\ c \in {0, 6}) THEN -1
            ELSE IF r = 3 /\ c = 3 THEN 0 ELSE 1]]

EnglishBoard == InitialBoard("english")
EuropeanBoard == InitialBoard("european")

\* the cells of the 7 x 7 grid
Cells == (0..6) \X (0..6)

\* sum(row.count(1) for row in board)
CountPegs(b) == Cardinality({rc \in Cells : b[rc[1]][rc[2]] = 1})

EnglishPegs == CountPegs(EnglishBoard)
EuropeanPegs == CountPegs(EuropeanBoard)

\* the number of pegs taken off the board since initial_board
JumpsMade(v, b) == (IF v = "english" THEN EnglishPegs ELSE EuropeanPegs) - CountPegs(b)

\* the board after the three assignments of a jump from (r, c) to (nr, nc)
Jumped(b, r, c, nr, nc) ==
    LET mr == (r + nr) \div 2
        mc == (c + nc) \div 2
        b1 == [b EXCEPT ![r][c] = 0]
        b2 == [b1 EXCEPT ![mr][mc] = 0]
    IN  [b2 EXCEPT ![nr][nc] = 1]

\* try_move: whether it returns True, and the board it leaves
try_move(b, src, dest) ==
    LET r == src[1]
        c == src[2]
        nr == dest[1]
        nc == dest[2]
        dr == nr - r
        dc == nc - c
    IN  IF b[nr][nc] # 0 THEN [ok |-> FALSE, board |-> b]
        ELSE IF ((Abs(dr) = 2 /\ dc = 0) \/ (Abs(dc) = 2 /\ dr = 0))
                    /\ b[(r + nr) \div 2][(c + nc) \div 2] = 1
             THEN [ok |-> TRUE, board |-> Jumped(b, r, c, nr, nc)]
             ELSE [ok |-> FALSE, board |-> b]

MoveSteps == << <<2, 0>>, <<-2, 0>>, <<0, 2>>, <<0, -2>> >>

\* (r, c, nr, nc) in the order the three loops of get_valid_moves visit them
MoveCandidates ==
    [k \in 1..(49 * 4) |->
        LET r == ((k - 1) \div 4) \div 7
            c == ((k - 1) \div 4) % 7
            d == ((k - 1) % 4) + 1
        IN  <<r, c, r + MoveSteps[d][1], c + MoveSteps[d][2]>>]

\* the moves whose landing cell is on the grid, empty or not
get_valid_moves_onto_pegs(b) ==
    SelectSeq(MoveCandidates, LAMBDA m :
            /\ b[m[1]][m[2]] = 1
            /\ 0 <= m[3] /\ m[3] < 7 /\ 0 <= m[4] /\ m[4] < 7
            /\ b[(m[1] + m[3]) \div 2][(m[2] + m[4]) \div 2] = 1)

\* get_valid_moves: the moves (r, c, nr, nc) in the order of the three loops
get_valid_moves(b) ==
    SelectSeq(MoveCandidates, LAMBDA m :
            /\ b[m[1]][m[2]] = 1
            /\ 0 <= m[3] /\ m[3] < 7 /\ 0 <= m[4] /\ m[4] < 7
            /\ b[m[3]][m[4]] = 0
            /\ b[(m[1] + m[3]) \div 2][(m[2] + m[4]) \div 2] = 1)

heuristic(pos) == Abs(pos[1] - 3) + Abs(pos[2] - 3)

\* moves.sort(key = heuristic of the source, reverse = True): a stable
\* sort, the moves of equal key keep their order
RECURSIVE SortedFrom(_, _)
SortedFrom(moves, h) ==
    IF h < 0 THEN <<>>
    ELSE SelectSeq(moves, LAMBDA m : heuristic(<<m[1], m[2]>>) = h)
            \o SortedFrom(moves, h - 1)

\* the first move in enumeration order, without the sort
get_greedy_move_unsorted(b) ==
    LET moves == get_valid_moves(b)
    IN  IF Len(moves) = 0 THEN <<>> ELSE moves[1]

\* get_greedy_move, <<>> for None
get_greedy_move(b) ==
    LET moves == get_valid_moves(b)
    IN  IF Len(moves) = 0 THEN <<>> ELSE SortedFrom(moves, 6)[1]
\* the status check_game_over sets with update_status, "Playing" when it
\* sets none
GameOverStatus(v, b) ==
    LET n == CountPegs(b)
    IN  IF v = "english" /\ n = 1 /\ b[3][3] = 1 THEN "Victory"
        ELSE IF v # "english" /\ n = 1 THEN "Victory"
        ELSE IF n > 1 /\ Len(get_valid_moves(b)) = 0 THEN "Game Over"
        ELSE "Playing"

\* the value check_game_over returns on a board; it sets game_over_flag
\* when that is True
check_game_over(v, b) ==
    LET n == CountPegs(b)
        moves == get_valid_moves(b)
    IN  IF v = "english" /\ n = 1 /\ b[3][3] = 1 THEN TRUE
        ELSE IF v # "english" /\ n = 1 THEN TRUE
        ELSE IF n > 1 /\ Len(moves) = 0 THEN TRUE
        ELSE FALSE

\* no main.py game is running (the other specifications)
MainIdle ==
    /\ board = <<>> /\ selected = <<>> /\ move_count = 0 /\ pegs_count = 0
    /\ game_over_flag = FALSE /\ move_history = <<>> /\ auto_play_running = FALSE
    /\ timers = 0 /\ hint = <<>> /\ m_last = "other" /\ m_pre = <<>>

\* PegSolitaireGUI.__init__: initial_board, then update_stats
PegSolitaireGUIInit ==
    /\ board = (IF version = "english" THEN EnglishBoard ELSE EuropeanBoard)
    /\ selected = <<>> /\ move_count = 0
    /\ pegs_count = CountPegs(board)
    /\ game_over_flag = FALSE /\ move_history = <<>> /\ auto_play_running = FALSE
    /\ timers = 0 /\ hint = <<>> /\ m_last = "other" /\ m_pre = <<>>

\* a click that lands on grid cell (r, c); cells outside 0..6 are off the grid
on_click(r, c) ==
    /\ hint' = <<>>
    /\ UNCHANGED <<version, auto_play_running, timers>>
    /\ IF game_over_flag \/ auto_play_running \/ ~(0 <= r /\ r < 7 /\ 0 <= c /\ c < 7)
       THEN /\ m_last' = "other" /\ m_pre' = <<>>
            /\ UNCHANGED <<board, selected, move_count, pegs_count, game_over_flag,
                           move_history>>
       ELSE IF selected = <<>> /\ board[r][c] = 1
       THEN /\ selected' = <<r, c>>
            /\ pegs_count' = CountPegs(board)
            /\ m_last' = "other" /\ m_pre' = <<>>
            /\ UNCHANGED <<board, move_count, game_over_flag, move_history>>
       ELSE IF selected # <<>>
       THEN LET t == try_move(board, selected, <<r, c>>)
            IN  IF t.ok
                THEN /\ board' = t.board
                     /\ move_history' = Append(move_history, t.board)
                     /\ move_count' = move_count + 1
                     /\ m_last' = "jump" /\ m_pre' = board
                     /\ IF check_game_over(version, t.board)
                        THEN /\ game_over_flag' = TRUE
                             /\ UNCHANGED <<selected, pegs_count>>
                        ELSE /\ selected' = <<>>
                             /\ pegs_count' = CountPegs(t.board)
                             /\ UNCHANGED game_over_flag
                ELSE /\ selected' = <<>>
                     /\ pegs_count' = CountPegs(board)
                     /\ m_last' = "other" /\ m_pre' = <<>>
                     /\ UNCHANGED <<board, move_count, game_over_flag, move_history>>
       ELSE /\ pegs_count' = CountPegs(board)
            /\ m_last' = "other" /\ m_pre' = <<>>
            /\ UNCHANGED <<board, selected, move_count, game_over_flag, move_history>>

undo_move ==
    /\ m_pre' = <<>> /\ hint' = <<>>
    /\ UNCHANGED <<version, auto_play_running, timers>>
    /\ IF auto_play_running
       THEN /\ m_last' = "other"
            /\ UNCHANGED <<board, selected, move_count, pegs_count, game_over_flag, move_history>>
       ELSE IF Len(move_history) > 0
       THEN /\ board' = move_history[Len(move_history)]
            /\ move_history' = SubSeq(move_history, 1, Len(move_history) - 1)
            /\ move_count' = IF move_count - 1 > 0 THEN move_count - 1 ELSE 0
            /\ selected' = <<>>
            /\ game_over_flag' = FALSE
            /\ pegs_count' = CountPegs(board')
            /\ m_last' = "undo"
       ELSE /\ m_last' = "other"
            /\ UNCHANGED <<board, selected, move_count, pegs_count, game_over_flag, move_history>>

\* the body of greedy_auto_play, run with the flags run and over
GreedyBody(run, over) ==
    IF ~run \/ over
    THEN /\ auto_play_running' = FALSE
         /\ game_over_flag' = over
         /\ UNCHANGED <<board, move_history, move_count, pegs_count>>
    ELSE LET move == get_greedy_move(board)
         IN  IF move = <<>>
             THEN /\ auto_play_running' = FALSE
                  /\ game_over_flag' = (over \/ check_game_over(version, board))
                  /\ UNCHANGED <<board, move_history, move_count, pegs_count>>
             ELSE /\ move_history' = Append(move_history, board)
                  /\ board' = Jumped(board, move[1], move[2], move[3], move[4])
                  /\ move_count' = move_count + 1
                  /\ pegs_count' = CountPegs(board')
                  /\ auto_play_running' = run
                  /\ game_over_flag' = over

\* whether GreedyBody schedules the next call with root.after
GreedySchedules(run, over) == run /\ ~over /\ get_greedy_move(board) # <<>>

toggle_auto_play ==
    /\ m_last' = "other" /\ m_pre' = <<>> /\ hint' = <<>>
    /\ UNCHANGED <<version, selected>>
    /\ IF game_over_flag
       THEN UNCHANGED <<board, move_count, pegs_count, game_over_flag, move_history,
                       auto_play_running, timers>>
       ELSE IF auto_play_running
       THEN /\ auto_play_running' = FALSE
            /\ UNCHANGED <<board, move_count, pegs_count, game_over_flag, move_history, timers>>
       ELSE /\ timers < MaxTimers
            /\ GreedyBody(TRUE, game_over_flag)
            /\ timers' = IF GreedySchedules(TRUE, game_over_flag) THEN timers + 1 ELSE timers

\* a call of greedy_auto_play that root.after scheduled
greedy_auto_play ==
    /\ timers > 0
    /\ m_last' = "other" /\ m_pre' = <<>> /\ hint' = <<>>
    /\ UNCHANGED <<version, selected>>
    /\ GreedyBody(auto_play_running, game_over_flag)
    /\ timers' = IF GreedySchedules(auto_play_running, game_over_flag)
                 THEN timers ELSE timers - 1

greedy_hint ==
    /\ hint' = get_greedy_move(board)
    /\ m_last' = "hint" /\ m_pre' = <<>>
    /\ UNCHANGED <<version, board, selected, move_count, pegs_count, game_over_flag,
                   move_history, auto_play_running, timers>>

\* initial_board and update_stats for version v
NewBoard(v) ==
    /\ version' = v
    /\ board' = (IF v = "english" THEN EnglishBoard ELSE EuropeanBoard)
    /\ game_over_flag' = FALSE /\ move_count' = 0 /\ selected' = <<>>
    /\ move_history' = <<>> /\ auto_play_running' = FALSE
    /\ pegs_count' = CountPegs(board')

restart ==
    /\ NewBoard(version)
    /\ m_last' = "other" /\ m_pre' = <<>> /\ hint' = <<>>
    /\ UNCHANGED timers

\* the player answers the question of the dialog with confirm
switch_version(confirm) ==
    /\ m_last' = "other" /\ m_pre' = <<>> /\ hint' = <<>>
    /\ UNCHANGED timers
    /\ IF auto_play_running \/ (move_count > 0 /\ ~confirm)
       THEN UNCHANGED <<version, board, selected, move_count, pegs_count, game_over_flag,
                       move_history, auto_play_running>>
       ELSE NewBoard(IF version = "english" THEN "european" ELSE "english")

----------------------------------------------------------------------------
(* RegionShrinkingDCSolver (Pegsolitaire5.py) *)

\* the pegs after the three assignments pegs[s] = 0; pegs[m] = 0; pegs[e] = 1
AfterMove(p, move) == [p EXCEPT ![move[1]] = 0, ![move[2]] = 0, ![move[3]] = 1]

\* arr with the elements at i and j exchanged
Swap(arr, i, j) == [arr EXCEPT ![i] = arr[j], ![j] = arr[i]]

\* key = lambda x: x[0], the priority of a (priority, move) pair
PriorityKey(x) == x[1]

\* the loop of _partition over j, from j to high - 1
RECURSIVE PartitionLoop(_, _, _, _, _)
PartitionLoop(arr, pivot, i, j, high) ==
    IF j >= high THEN [i |-> i, arr |-> arr]
    ELSE IF PriorityKey(arr[j]) <= pivot
         THEN PartitionLoop(Swap(arr, i + 1, j), pivot, i + 1, j + 1, high)
         ELSE PartitionLoop(arr, pivot, i, j + 1, high)

\* _partition(low, high): the pivot index it returns and the list it leaves
partition(arr, low, high) ==
    LET r == PartitionLoop(arr, PriorityKey(arr[high]), low - 1, low, high)
    IN  [pi |-> r.i + 1, arr |-> Swap(r.arr, r.i + 1, high)]

RECURSIVE QuicksortRange(_, _, _)
QuicksortRange(arr, low, high) ==
    IF low < high
    THEN LET p == partition(arr, low, high)
         IN  QuicksortRange(QuicksortRange(p.arr, low, p.pi - 1), p.pi + 1, high)
    ELSE arr

\* quicksort(arr, key): the list after the in-place sort
quicksort(arr) == QuicksortRange(arr, 1, Len(arr))

\* list.reverse()
Reverse(s) == [k \in 1..Len(s) |-> s[Len(s) + 1 - k]]

\* the Manhattan distance of hole i from (3, 3)
CentreDistance(v, i) ==
    Abs(GraphNodes(v)[i + 1][1] - 3) + Abs(GraphNodes(v)[i + 1][2] - 3)

_get_move_priority(v, move) ==
    CentreDistance(v, move[2]) * 10 + CentreDistance(v, move[1])

\* the elements of a list, as set(...) builds them
SetOf(s) == {s[k] : k \in 1..Len(s)}

\* the loop `while changed` of the two priority procedures over the jumps
\* scope: collect the legal ones with their priority, quicksort, reverse,
\* apply the first; it ends when no jump of scope is legal
RECURSIVE PriorityLoop(_, _, _, _)
PriorityLoop_ignores_end(v, scope, p, made) ==
    LET legal == SelectSeq(scope, LAMBDA j : p[j[1]] = 1 /\ p[j[2]] = 1)
        candidate_moves ==
            Reverse(quicksort([k \in 1..Len(legal) |->
                                <<_get_move_priority(v, legal[k]), legal[k]>>]))
    IN  IF Len(legal) = 0 THEN [moves |-> made, pegs |-> p]
        ELSE PriorityLoop(v, scope, AfterMove(p, candidate_moves[1][2]),
                          Append(made, candidate_moves[1][2]))
\* the loop without the reverse: it applies the first of the ascending list
PriorityLoop_without_reverse(v, scope, p, made) ==
    LET legal == SelectSeq(scope, LAMBDA j : Legal(p, j))
        candidate_moves ==
            quicksort([k \in 1..Len(legal) |->
                        <<_get_move_priority(v, legal[k]), legal[k]>>])
    IN  IF Len(legal) = 0 THEN [moves |-> made, pegs |-> p]
        ELSE PriorityLoop(v, scope, AfterMove(p, candidate_moves[1][2]),
                          Append(made, candidate_moves[1][2]))

PriorityLoop(v, scope, p, made) ==
    LET legal == SelectSeq(scope, LAMBDA j : Legal(p, j))
        candidate_moves ==
            Reverse(quicksort([k \in 1..Len(legal) |->
                                <<_get_move_priority(v, legal[k]), legal[k]>>]))
    IN  IF Len(legal) = 0 THEN [moves |-> made, pegs |-> p]
        ELSE PriorityLoop(v, scope, AfterMove(p, candidate_moves[1][2]),
                          Append(made, candidate_moves[1][2]))
\* the base case with the test of the region on the start and the middle
\* hole only
_solve_small_region_priority_open_end(v, node_indices, p) ==
    LET region_set == SetOf(node_indices)
    IN  PriorityLoop(v,
            SelectSeq(GraphJumps(v), LAMBDA j :
                j[1] \in region_set /\ j[2] \in region_set),
            p, <<>>)

\* _solve_small_region_priority: moves_made and the pegs it leaves
_solve_small_region_priority(v, node_indices, p) ==
    LET region_set == SetOf(node_indices)
    IN  PriorityLoop(v,
            SelectSeq(GraphJumps(v), LAMBDA j :
                j[1] \in region_set /\ j[2] \in region_set /\ j[3] \in region_set),
            p, <<>>)
\* the combine step without the test that a jump touches both halves
_execute_cross_boundary_moves_priority_any(v, left, right, p) ==
    LET all_set == SetOf(left) \cup SetOf(right)
    IN  PriorityLoop(v,
            SelectSeq(GraphJumps(v), LAMBDA j :
                j[1] \in all_set /\ j[2] \in all_set /\ j[3] \in all_set),
            p, <<>>)

\* _execute_cross_boundary_moves_priority: moves_made and the pegs it leaves
_execute_cross_boundary_moves_priority(v, left, right, p) ==
    LET left_set == SetOf(left)
        right_set == SetOf(right)
        all_set == left_set \cup right_set
    IN  PriorityLoop(v,
            SelectSeq(GraphJumps(v), LAMBDA j :
                /\ j[1] \in all_set /\ j[2] \in all_set /\ j[3] \in all_set
                /\ {j[1], j[2], j[3]} \cap left_set # {}
                /\ {j[1], j[2], j[3]} \cap right_set # {}),
            p, <<>>)

\* sorted(node_indices, key): a stable sort on the row or the column, 0..6
RECURSIVE SortedByAxis(_, _, _, _)
SortedByAxis(v, node_indices, axis, k) ==
    IF k > 6 THEN <<>>
    ELSE SelectSeq(node_indices, LAMBDA i : GraphNodes(v)[i + 1][axis] = k)
            \o SortedByAxis(v, node_indices, axis, k + 1)
\* the split that leaves the hole in the middle of the sorted list out of
\* both halves
_spatial_split_drops_middle(v, node_indices, by_row) ==
    LET sorted_nodes == SortedByAxis(v, node_indices, IF by_row THEN 1 ELSE 2, 0)
        mid == Len(sorted_nodes) \div 2
    IN  <<SubSeq(sorted_nodes, 1, mid), SubSeq(sorted_nodes, mid + 2, Len(sorted_nodes))>>

\* the split without the sort: the halves of node_indices as it comes
_spatial_split_unsorted(v, node_indices, by_row) ==
    <<SubSeq(node_indices, 1, Len(node_indices) \div 2),
      SubSeq(node_indices, Len(node_indices) \div 2 + 1, Len(node_indices))>>

_spatial_split(v, node_indices, by_row) ==
    LET sorted_nodes == SortedByAxis(v, node_indices, IF by_row THEN 1 ELSE 2, 0)
        mid == Len(sorted_nodes) \div 2
    IN  <<SubSeq(sorted_nodes, 1, mid), SubSeq(sorted_nodes, mid + 1, Len(sorted_nodes))>>

\* all_nodes = list(range(len(nodes)))
AllNodes(v) == [k \in 1..Len(GraphNodes(v)) |-> k - 1]

\* _solve_dc without cancellation, as one recursion: the moves it returns
\* and the pegs it leaves
RECURSIVE _solve_dc(_, _, _, _)
_solve_dc(v, node_indices, p, split_by_row) ==
    IF Len(node_indices) <= 3
    THEN _solve_small_region_priority(v, node_indices, p)
    ELSE LET halves == _spatial_split(v, node_indices, split_by_row)
             l == _solve_dc(v, halves[1], p, ~split_by_row)
             r == _solve_dc(v, halves[2], l.pegs, ~split_by_row)
             c == _execute_cross_boundary_moves_priority(v, halves[1], halves[2], r.pegs)
         IN  [moves |-> l.moves \o r.moves \o c.moves, pegs |-> c.pegs]

----------------------------------------------------------------------------
(* DivideAndConquerSolver (pegdc.py) *)
(* A bitboard or a mask, an unbounded Python int, is written as the set of *)
(* the positions of its 1 bits: 1 << i is {i}, & is the intersection, | the *)
(* union, a & ~b the difference, and a mask is true when it is not 0.      *)

\* the masks (1 << s, 1 << m, 1 << e) of __init__, in the order of valid_jumps
move_masks(v) ==
    [k \in 1..Len(GraphJumps(v)) |->
        <<{GraphJumps(v)[k][1]}, {GraphJumps(v)[k][2]}, {GraphJumps(v)[k][3]}>>]

EnglishMasks == move_masks("english")
EuropeanMasks == move_masks("european")
SolverMasks(v) == IF v = "english" THEN EnglishMasks ELSE EuropeanMasks

\* state_to_bitboard: bb |= 1 << i for every hole i with a peg
state_to_bitboard(p) == {i \in DOMAIN p : p[i] # 0}
\* the move that leaves the jumped peg on the bitboard: (bb & ~s) | e
apply_move_keeps_mid(bb, move) == (bb \ move[1]) \cup move[3]

\* apply_move: (bb & ~(s | m)) | e
apply_move(bb, move) == (bb \ (move[1] \cup move[2])) \cup move[3]

\* peg_count: bb.bit_count()
peg_count(bb) == Cardinality(bb)

\* mask.bit_length() - 1: the position of the highest 1 bit
BitIndex(mask) == CHOOSE i \in mask : \A j \in mask : j <= i

\* the list moves of _solve: the masks of the jumps legal on bb
LegalMasks(v, bb) ==
    SelectSeq(SolverMasks(v), LAMBDA mk :
        bb \cap mk[1] # {} /\ bb \cap mk[2] # {} /\ bb \cap mk[3] = {})

\* the return of (pegs_left, path) from a call of _solve to the calls that
\* wait on stack, each at its move idx with its best_pegs and best_path: a
\* caller takes the result when it is better, leaves its loop when its best
\* is 1 or its moves are used up and returns in turn, or else goes on to
\* its next move: call is then the bitboard of the call it makes
RECURSIVE Unwind(_, _, _)
Unwind_takes_last(stack, pegs_left, path) ==
    IF Len(stack) = 0
    THEN [stack |-> <<>>, call |-> {}, done |-> TRUE, pegs |-> pegs_left, path |-> path]
    ELSE LET f == stack[Len(stack)]
             best_path == <<f.moves[f.idx]>> \o path
             rest == SubSeq(stack, 1, Len(stack) - 1)
         IN  IF pegs_left = 1 \/ f.idx = Len(f.moves)
             THEN Unwind(rest, pegs_left, best_path)
             ELSE [stack |-> Append(rest, [f EXCEPT !.idx = f.idx + 1,
                                                   !.best_pegs = pegs_left,
                                                   !.best_path = best_path]),
                   call |-> apply_move(f.bb, f.moves[f.idx + 1]),
                   done |-> FALSE, pegs |-> 0, path |-> <<>>]

Unwind_after_first_move(stack, pegs_left, path) ==
    IF Len(stack) = 0
    THEN [stack |-> <<>>, call |-> {}, done |-> TRUE, pegs |-> pegs_left, path |-> path]
    ELSE LET f == stack[Len(stack)]
         IN  Unwind(SubSeq(stack, 1, Len(stack) - 1), pegs_left,
                    <<f.moves[f.idx]>> \o path)
Unwind_without_break(stack, pegs_left, path) ==
    IF Len(stack) = 0
    THEN [stack |-> <<>>, call |-> {}, done |-> TRUE, pegs |-> pegs_left, path |-> path]
    ELSE LET f == stack[Len(stack)]
             better == pegs_left < f.best_pegs
             best_pegs == IF better THEN pegs_left ELSE f.best_pegs
             best_path == IF better THEN <<f.moves[f.idx]>> \o path ELSE f.best_path
             rest == SubSeq(stack, 1, Len(stack) - 1)
         IN  IF f.idx = Len(f.moves)
             THEN Unwind(rest, best_pegs, best_path)
             ELSE [stack |-> Append(rest, [f EXCEPT !.idx = f.idx + 1,
                                                   !.best_pegs = best_pegs,
                                                   !.best_path = best_path]),
                   call |-> apply_move(f.bb, f.moves[f.idx + 1]),
                   done |-> FALSE, pegs |-> 0, path |-> <<>>]

Unwind(stack, pegs_left, path) ==
    IF Len(stack) = 0
    THEN [stack |-> <<>>, call |-> {}, done |-> TRUE, pegs |-> pegs_left, path |-> path]
    ELSE LET f == stack[Len(stack)]
             better == pegs_left < f.best_pegs
             best_pegs == IF better THEN pegs_left ELSE f.best_pegs
             best_path == IF better THEN <<f.moves[f.idx]>> \o path ELSE f.best_path
             rest == SubSeq(stack, 1, Len(stack) - 1)
         IN  IF best_pegs = 1 \/ f.idx = Len(f.moves)
             THEN Unwind(rest, best_pegs, best_path)
             ELSE [stack |-> Append(rest, [f EXCEPT !.idx = f.idx + 1,
                                                   !.best_pegs = best_pegs,
                                                   !.best_path = best_path]),
                   call |-> apply_move(f.bb, f.moves[f.idx + 1]),
                   done |-> FALSE, pegs |-> 0, path |-> <<>>]
\* the call that does not read search_cancel
SolveCall_ignores_cancel(v, stack, bb, cancel) ==
    LET moves == LegalMasks(v, bb)
    IN  IF Len(moves) = 0
        THEN Unwind(stack, peg_count(bb), <<>>)
        ELSE [stack |-> Append(stack, [bb |-> bb, moves |-> moves, idx |-> 1,
                                       best_pegs |-> 999, best_path |-> <<>>]),
              call |-> apply_move(bb, moves[1]),
              done |-> FALSE, pegs |-> 0, path |-> <<>>]

\* one call of _solve(bb) up to its first recursive call or its return, with
\* the value cancel of search_cancel it reads
SolveCall(v, stack, bb, cancel) ==
    LET moves == LegalMasks(v, bb)
    IN  IF cancel \/ Len(moves) = 0
        THEN Unwind(stack, peg_count(bb), <<>>)
        ELSE [stack |-> Append(stack, [bb |-> bb, moves |-> moves, idx |-> 1,
                                       best_pegs |-> 999, best_path |-> <<>>]),
              call |-> apply_move(bb, moves[1]),
              done |-> FALSE, pegs |-> 0, path |-> <<>>]

\* _solve(bb) without cancellation, as one recursion: (pegs_remaining,
\* path); SolveLoop is its loop over moves from the k-th move on
RECURSIVE _solve(_, _)
RECURSIVE SolveLoop(_, _, _, _, _, _)
_solve(v, bb) ==
    LET moves == LegalMasks(v, bb)
    IN  IF Len(moves) = 0
        THEN [pegs |-> peg_count(bb), path |-> <<>>]
        ELSE SolveLoop(v, bb, moves, 1, 999, <<>>)

SolveLoop(v, bb, moves, k, best_pegs, best_path) ==
    IF k > Len(moves)
    THEN [pegs |-> best_pegs, path |-> best_path]
    ELSE LET r == _solve(v, apply_move(bb, moves[k]))
             better == r.pegs < best_pegs
             pegs_now == IF better THEN r.pegs ELSE best_pegs
             path_now == IF better THEN <<moves[k]>> \o r.path ELSE best_path
         IN  IF pegs_now = 1
             THEN [pegs |-> pegs_now, path |-> path_now]
             ELSE SolveLoop(v, bb, moves, k + 1, pegs_now, path_now)

\* the id triples of _threaded_solve: bit_length() - 1 of each mask
IdSolution(path) ==
    [k \in 1..Len(path) |->
        <<BitIndex(path[k][1]), BitIndex(path[k][2]), BitIndex(path[k][3])>>]

----------------------------------------------------------------------------
(* GameFrame (pegdc.py, Pegsolitaire5.py) *)

\* a game the player can play by clicking, from the initial board: 31 jumps
\* that leave one peg on the english board
EnglishLine ==
    << <<4, 9, 16>>, <<7, 8, 9>>, <<0, 3, 8>>, <<2, 1, 0>>, <<9, 8, 7>>, <<6, 7, 8>>,
       <<10, 5, 2>>, <<12, 11, 10>>, <<15, 8, 3>>, <<0, 3, 8>>, <<13, 14, 15>>, <<15, 8, 3>>,
       <<17, 10, 5>>, <<2, 5, 10>>, <<19, 18, 17>>, <<17, 10, 5>>, <<27, 22, 15>>, <<20, 21, 22>>,
       <<22, 15, 8>>, <<3, 8, 15>>, <<15, 16, 17>>, <<24, 17, 10>>, <<5, 10, 17>>, <<26, 25, 24>>,
       <<23, 24, 25>>, <<32, 29, 24>>, <<17, 24, 29>>, <<30, 31, 32>>, <<32, 29, 24>>, <<25, 24, 23>>,
       <<23, 28, 31>> >>

\* 34 jumps that leave two pegs on the european board
EuropeanLine ==
    << <<5, 11, 18>>, <<3, 4, 5>>, <<1, 5, 11>>, <<7, 6, 5>>, <<11, 5, 1>>, <<9, 10, 11>>,
       <<12, 11, 10>>, <<14, 13, 12>>, <<17, 10, 4>>, <<0, 4, 10>>, <<2, 1, 0>>, <<15, 16, 17>>,
       <<17, 10, 4>>, <<0, 4, 10>>, <<19, 12, 6>>, <<21, 20, 19>>, <<19, 18, 17>>, <<17, 10, 4>>,
       <<29, 23, 16>>, <<25, 24, 23>>, <<22, 23, 24>>, <<27, 26, 25>>, <<25, 24, 23>>, <<23, 16, 9>>,
       <<8, 9, 10>>, <<4, 10, 17>>, <<34, 30, 24>>, <<17, 24, 30>>, <<35, 31, 25>>, <<33, 32, 31>>,
       <<30, 31, 32>>, <<36, 32, 26>>, <<25, 26, 27>>, <<28, 27, 26>> >>

GameLine(v) == IF v = "english" THEN EnglishLine ELSE EuropeanLine

\* the pegs after the first k jumps of the line, and the snapshots
\* execute_move pushed on history on the way
RECURSIVE PlayedPegs(_, _)
PlayedPegs(v, k) ==
    IF k = 0 THEN InitialPegs(v) ELSE AfterMove(PlayedPegs(v, k - 1), GameLine(v)[k])

PlayedHistory(v, k) == [n \in 1..k |-> PlayedPegs(v, n - 1)]

WorkerIds == 1..MaxWorkers

\* one solver object more than threads: the one the frame refers to
SolverIds == 1..(MaxWorkers + 1)

\* a solver object after __init__
FreshSolver ==
    [search_cancel |-> FALSE, callback |-> "None", solution_cache |-> <<>>,
     search_thread |-> 0]

\* no thread: pc is "free". A thread of RegionShrinkingDCSolver is at "copy"
\* (before pegs = self.game.pegs[:]), "run" or "deliver" (after _solve_dc),
\* a thread of DivideAndConquerSolver at "run" or "deliver" (after _solve).
\* sid is the solver object, live whether its game is the game of the frame,
\* game the pegs of its game otherwise, pegs the private list, call the
\* bitboard of the call of _solve to come, stack the calls that wait, out
\* and out_pegs the value returned; snap (the occupancy the search started
\* from), saw_cancel (the thread read search_cancel as True) and calls (the
\* calls of _solve made) are history, as are cb, the callback start_solving
\* was given when it created the thread, and last, the last step of a thread
\* of the region solver: its kind, the region and the halves of the call,
\* the pegs the step found and the moves it applied; before_restart is
\* history too: restart_game ran after start_solving created the thread
FreeWorker ==
    [pc |-> "free", sid |-> 0, live |-> FALSE, game |-> <<>>, snap |-> <<>>,
     pegs |-> <<>>, call |-> {}, stack |-> <<>>, out |-> <<>>, out_pegs |-> 0,
     saw_cancel |-> FALSE, calls |-> 0, cb |-> "None", before_restart |-> FALSE,
     last |-> [kind |-> "none", nodes |-> <<>>, by_row |-> FALSE, left |-> <<>>,
               right |-> <<>>, from |-> <<>>, moves |-> <<>>]]

\* the thread wk has run to its end: what stays of it is history, whether
\* it read search_cancel as True (saw), its callback cb when the callback
\* it handed to after() (sent) was another one, and whether restart_game
\* ran while it was alive
EndedWorker(wk, saw, sent) ==
    [FreeWorker EXCEPT !.saw_cancel = saw,
                       !.cb = IF sent = wk.cb THEN "None" ELSE wk.cb,
                       !.before_restart = wk.before_restart]

\* the GUI thread runs no handler
GuiIdle == [at |-> "idle", next |-> "none", callback |-> "None"]

\* on_back() has destroyed the frame: its buttons, its canvas and the
\* callbacks it registered with after are gone
GuiClosed == [at |-> "closed", next |-> "none", callback |-> "None"]

\* no GameFrame is open (the other specifications)
FrameIdle ==
    /\ variant = "none" /\ selected_node = -1 /\ autoplay_running = FALSE
    /\ autoplay_moves = <<>> /\ autoplay_index = 0 /\ searching = FALSE
    /\ step_timers = 0 /\ solver = 0 /\ solvers = <<>> /\ workers = <<>>
    /\ after_queue = <<>> /\ gui = GuiIdle /\ clicks = 0 /\ f_last = "gui"

\* GameFrame.__init__ of program var, followed by the clicks that play the
\* first k jumps of the line: each click pair runs execute_move and builds a
\* new solver
GameFrameInit(var, k) ==
    /\ variant = var
    /\ pegs = PlayedPegs(version, k)
    /\ history = PlayedHistory(version, k)
    /\ selected_node = -1 /\ autoplay_running = FALSE
    /\ autoplay_moves = <<>> /\ autoplay_index = 0 /\ searching = FALSE
    /\ step_timers = 0
    /\ solver = 1
    /\ solvers = [i \in SolverIds |-> FreshSolver]
    /\ workers = [w \in WorkerIds |-> FreeWorker]
    /\ after_queue = <<>> /\ gui = GuiIdle /\ clicks = 0 /\ f_last = "gui"

\* a thread that runs refers to solver object i
Referenced(ws, i) == \E w \in WorkerIds : ws[w].pc # "free" /\ ws[w].sid = i

\* the solver objects that the frame (cur) or a thread of ws still refers
\* to; the others are garbage and count as fresh
Collect(ss, ws, cur) ==
    [i \in SolverIds |-> IF i = cur \/ Referenced(ws, i) THEN ss[i] ELSE FreshSolver]

\* self.solver = Solver(self.game); self.solver.game_frame = self, with the
\* threads ws
NewSolver(ws) ==
    LET id == CHOOSE i \in SolverIds :
                /\ ~Referenced(ws, i)
                /\ \A j \in SolverIds : j < i => Referenced(ws, j)
    IN  /\ solver' = id
        /\ solvers' = [Collect(solvers, ws, id) EXCEPT ![id] = FreshSolver]

\* the thread start_solving creates: pegdc.py computes initial_bb before the
\* thread starts, Pegsolitaire5.py copies the pegs inside the thread
NewWorker ==
    IF variant = "region"
    THEN [FreeWorker EXCEPT !.pc = "copy", !.sid = solver, !.live = TRUE]
    ELSE [FreeWorker EXCEPT !.pc = "run", !.sid = solver,
                            !.call = state_to_bitboard(pegs),
                            !.snap = state_to_bitboard(pegs)]

\* start_solving after its call of cancel_solving returned
StartThread(callback) ==
    /\ \E w \in WorkerIds : workers[w].pc = "free"
    /\ LET w == CHOOSE x \in WorkerIds :
                    workers[x].pc = "free" /\ \A y \in WorkerIds : y < x => workers[y].pc # "free"
       IN  /\ solvers' = [solvers EXCEPT ![solver] =
                            [@ EXCEPT !.search_cancel = FALSE, !.callback = callback,
                                      !.search_thread = w]]
           /\ workers' = [workers EXCEPT ![w] = [NewWorker EXCEPT !.cb = callback]]

\* start_solving(callback) of the solver of the frame: cancel_solving sets
\* the flag and, when the thread is alive, waits in join(timeout = 0.1)
start_solving(callback) ==
    IF solvers[solver].search_thread # 0
    THEN /\ solvers' = [solvers EXCEPT ![solver].search_cancel = TRUE]
         /\ gui' = [at |-> "join", next |-> "start", callback |-> callback]
         /\ UNCHANGED workers
    ELSE /\ StartThread(callback)
         /\ UNCHANGED gui

\* cancel_solving() called by a handler that then returns
cancel_solving ==
    /\ UNCHANGED workers
    /\ IF solvers[solver].search_thread # 0
       THEN /\ solvers' = [solvers EXCEPT ![solver].search_cancel = TRUE]
            /\ gui' = [at |-> "join", next |-> "stop", callback |-> "None"]
       ELSE /\ solvers' = [solvers EXCEPT ![solver].search_cancel = TRUE]
            /\ UNCHANGED gui

\* join returns, because the thread ended or after 0.1 s: search_thread =
\* None, and start_solving goes on
join_returns ==
    /\ gui.at = "join"
    /\ f_last' = "gui"
    /\ gui' = IF gui.next = "exit" THEN GuiClosed ELSE GuiIdle
    /\ IF gui.next \in {"stop", "exit"}
       THEN /\ solvers' = [solvers EXCEPT ![solver].search_thread = 0]
            /\ UNCHANGED workers
       ELSE StartThread(gui.callback)
    /\ UNCHANGED <<pegs, history, selected_node, autoplay_running, autoplay_moves,
                   autoplay_index, searching, step_timers, solver, after_queue>>
\* run_autoplay_step without the test of line 788
InLegalMoves_any(move) == TRUE

\* move in self.game.get_legal_moves()
InLegalMoves(move) ==
    \E k \in 1..Len(LegalMoves(version, pegs)) : LegalMoves(version, pegs)[k] = move

\* the body of run_autoplay_step, entered with autoplay_running = running,
\* autoplay_moves = moves, autoplay_index = index and searching = srch
RunStep(running, moves, index, srch) ==
    IF ~running
    THEN /\ autoplay_running' = running /\ autoplay_index' = index /\ searching' = srch
         /\ UNCHANGED <<pegs, history, solvers, workers, gui>>
    ELSE IF index >= Len(moves)
    THEN IF variant = "exhaustive" \/ is_game_over(version, pegs)
         THEN /\ autoplay_running' = FALSE /\ autoplay_index' = index /\ searching' = srch
              /\ UNCHANGED <<pegs, history, solvers, workers, gui>>
         ELSE /\ autoplay_running' = running /\ autoplay_index' = index
              /\ searching' = TRUE
              /\ start_solving("_on_autoplay_solution")
              /\ UNCHANGED <<pegs, history>>
    ELSE IF variant = "region" /\ ~InLegalMoves(moves[index + 1])
    THEN /\ autoplay_running' = FALSE /\ autoplay_index' = index /\ searching' = srch
         /\ UNCHANGED <<pegs, history, solvers, workers, gui>>
    ELSE /\ history' = Append(history, pegs)
         /\ pegs' = AfterMove(pegs, moves[index + 1])
         /\ autoplay_running' = running /\ autoplay_index' = index + 1
         /\ searching' = srch
         /\ UNCHANGED <<solvers, workers, gui>>
\* run_autoplay_step without its last line, self.after(600, ...)
StepSchedules_never(running, moves, index) == FALSE

\* whether that body ends with self.after(..., self.run_autoplay_step)
StepSchedules(running, moves, index) ==
    /\ running /\ index < Len(moves)
    /\ variant = "exhaustive" \/ InLegalMoves(moves[index + 1])

\* a click on hole clicked
frame_on_click(clicked) ==
    /\ gui.at = "idle"
    /\ f_last' = "gui"
    /\ UNCHANGED <<autoplay_running, autoplay_moves, autoplay_index, searching,
                   step_timers, workers, after_queue, gui>>
    /\ IF autoplay_running \/ searching
       THEN UNCHANGED <<selected_node, pegs, history, solver, solvers>>
       ELSE IF selected_node = -1
       THEN /\ selected_node' = IF pegs[clicked] = 1 THEN clicked ELSE -1
            /\ UNCHANGED <<pegs, history, solver, solvers>>
       ELSE IF clicked = selected_node
       THEN /\ selected_node' = -1
            /\ UNCHANGED <<pegs, history, solver, solvers>>
       ELSE IF pegs[clicked] = 0
       THEN LET found == SelectSeq(LegalMoves(version, pegs),
                                   LAMBDA j : j[1] = selected_node /\ j[3] = clicked)
            IN  IF Len(found) > 0
                THEN /\ history' = Append(history, pegs)
                     /\ pegs' = AfterMove(pegs, found[1])
                     /\ selected_node' = -1
                     /\ NewSolver(workers)
                ELSE /\ selected_node' = IF variant = "region" THEN clicked
                                         ELSE selected_node
                     /\ UNCHANGED <<pegs, history, solver, solvers>>
       ELSE /\ selected_node' = clicked
            /\ UNCHANGED <<pegs, history, solver, solvers>>

frame_undo_move ==
    /\ gui.at = "idle"
    /\ f_last' = "gui"
    /\ UNCHANGED <<autoplay_running, autoplay_moves, autoplay_index, searching,
                   step_timers, workers, after_queue, gui>>
    /\ IF autoplay_running \/ searching \/ Len(history) = 0
       THEN UNCHANGED <<selected_node, pegs, history, solver, solvers>>
       ELSE /\ pegs' = history[Len(history)]
            /\ history' = SubSeq(history, 1, Len(history) - 1)
            /\ selected_node' = -1
            /\ NewSolver(workers)

\* restart_game: a new GameState and a new solver; a thread that has not
\* copied the pegs yet keeps the game object of its solver, the old one.
\* The threads that run and the callbacks that wait belong to searches
\* started before the restart
restart_game ==
    /\ gui.at = "idle"
    /\ f_last' = "gui"
    /\ autoplay_running' = FALSE /\ searching' = FALSE
    /\ pegs' = InitialPegs(version) /\ history' = <<>>
    /\ selected_node' = -1
    /\ workers' = [w \in WorkerIds |->
                    IF workers[w].pc = "copy" /\ workers[w].live
                    THEN [workers[w] EXCEPT !.live = FALSE, !.game = pegs,
                                            !.before_restart = TRUE]
                    ELSE IF workers[w].pc # "free"
                    THEN [workers[w] EXCEPT !.before_restart = TRUE]
                    ELSE workers[w]]
    /\ after_queue' = [k \in 1..Len(after_queue) |->
                        [after_queue[k] EXCEPT !.before_restart = TRUE]]
    /\ NewSolver(workers)
    /\ UNCHANGED <<autoplay_moves, autoplay_index, step_timers, gui>>

\* on_exit: the flags, cancel_solving() and on_back()
on_exit ==
    /\ gui.at = "idle"
    /\ f_last' = "gui"
    /\ autoplay_running' = FALSE /\ searching' = FALSE
    /\ solvers' = [solvers EXCEPT ![solver].search_cancel = TRUE]
    /\ gui' = IF solvers[solver].search_thread # 0
              THEN [at |-> "join", next |-> "exit", callback |-> "None"]
              ELSE GuiClosed
    /\ UNCHANGED <<selected_node, autoplay_moves, autoplay_index, step_timers,
                   pegs, history, solver, workers, after_queue>>

show_hint ==
    /\ gui.at = "idle"
    /\ f_last' = "gui"
    /\ UNCHANGED <<selected_node, autoplay_running, autoplay_moves, autoplay_index,
                   step_timers, after_queue, pegs, history, solver>>
    /\ IF autoplay_running \/ searching
       THEN UNCHANGED <<searching, solvers, workers, gui>>
       ELSE IF variant = "exhaustive" /\ Len(solvers[solver].solution_cache) > 0
       THEN UNCHANGED <<searching, solvers, workers, gui>>
       ELSE /\ searching' = TRUE
            /\ start_solving("_on_hint_solution")

toggle_autoplay ==
    /\ gui.at = "idle"
    /\ f_last' = "gui"
    /\ UNCHANGED <<selected_node, solver, after_queue>>
    /\ IF autoplay_running
       THEN /\ autoplay_running' = FALSE
            /\ cancel_solving
            /\ UNCHANGED <<autoplay_moves, autoplay_index, searching, step_timers,
                           pegs, history>>
       ELSE IF searching
       THEN UNCHANGED <<autoplay_running, autoplay_moves, autoplay_index, searching,
                        step_timers, pegs, history, solvers, workers, gui>>
       ELSE IF variant = "exhaustive" /\ Len(solvers[solver].solution_cache) > 0
       THEN LET solution == solvers[solver].solution_cache
            IN  /\ autoplay_moves' = solution
                /\ RunStep(TRUE, solution, 0, searching)
                /\ step_timers' = IF StepSchedules(TRUE, solution, 0)
                                  THEN step_timers + 1 ELSE step_timers
       ELSE /\ searching' = TRUE
            /\ start_solving("_on_autoplay_solution")
            /\ UNCHANGED <<autoplay_running, autoplay_moves, autoplay_index, step_timers,
                           pegs, history>>

\* a call of run_autoplay_step that after scheduled
run_autoplay_step ==
    /\ gui.at = "idle"
    /\ step_timers > 0
    /\ f_last' = "gui"
    /\ RunStep(autoplay_running, autoplay_moves, autoplay_index, searching)
    /\ step_timers' = IF StepSchedules(autoplay_running, autoplay_moves, autoplay_index)
                      THEN step_timers ELSE step_timers - 1
    /\ UNCHANGED <<selected_node, autoplay_moves, solver, after_queue>>

_on_hint_solution(solution) ==
    /\ searching' = FALSE
    /\ solvers' = IF variant = "region" /\ Len(solution) > 0
                  THEN [solvers EXCEPT ![solver].solution_cache = solution]
                  ELSE solvers
    /\ UNCHANGED <<autoplay_running, autoplay_moves, autoplay_index, step_timers,
                   pegs, history, workers, gui>>

\* _on_autoplay_solution; with a solution both programs set autoplay_moves,
\* autoplay_index and autoplay_running and call run_autoplay_step
_on_autoplay_solution(solution) ==
    IF Len(solution) > 0
    THEN /\ autoplay_moves' = solution
         /\ RunStep(TRUE, solution, 0, FALSE)
         /\ step_timers' = IF StepSchedules(TRUE, solution, 0)
                           THEN step_timers + 1 ELSE step_timers
    ELSE /\ searching' = FALSE
         /\ autoplay_running' = IF variant = "region" THEN FALSE ELSE autoplay_running
         /\ UNCHANGED <<autoplay_moves, autoplay_index, step_timers, pegs, history,
                        solvers, workers, gui>>

\* the main loop runs the callback a thread scheduled first
after_callback ==
    /\ gui.at = "idle"
    /\ Len(after_queue) > 0
    /\ f_last' = "gui"
    /\ after_queue' = Tail(after_queue)
    /\ IF after_queue[1].callback = "_on_hint_solution"
       THEN _on_hint_solution(after_queue[1].solution)
       ELSE _on_autoplay_solution(after_queue[1].solution)
    /\ UNCHANGED <<selected_node, solver>>

\* a call of _solve_dc that starts
DcFrame(node_indices, split_by_row) ==
    [nodes |-> node_indices, by_row |-> split_by_row, phase |-> "enter",
     left |-> <<>>, right |-> <<>>, moves |-> <<>>]
\* the return that puts the moves of the right half before those of the
\* left half
RsReturn_right_first(stack, v) ==
    IF Len(stack) = 0 THEN [stack |-> <<>>, done |-> TRUE, out |-> v]
    ELSE LET f == stack[Len(stack)]
             rest == SubSeq(stack, 1, Len(stack) - 1)
         IN  IF f.phase = "left"
             THEN [stack |-> rest \o <<[f EXCEPT !.phase = "right", !.moves = v],
                                        DcFrame(f.right, ~f.by_row)>>,
                   done |-> FALSE, out |-> <<>>]
             ELSE [stack |-> Append(rest, [f EXCEPT !.phase = "combine",
                                                    !.moves = v \o f.moves]),
                   done |-> FALSE, out |-> <<>>]

\* the return of the list v from a call of _solve_dc to the calls that wait
\* on stack: the caller that waited for its left half calls the right half,
\* the caller that waited for its right half goes on to the combine step
RsReturn(stack, v) ==
    IF Len(stack) = 0 THEN [stack |-> <<>>, done |-> TRUE, out |-> v]
    ELSE LET f == stack[Len(stack)]
             rest == SubSeq(stack, 1, Len(stack) - 1)
         IN  IF f.phase = "left"
             THEN [stack |-> rest \o <<[f EXCEPT !.phase = "right", !.moves = v],
                                        DcFrame(f.right, ~f.by_row)>>,
                   done |-> FALSE, out |-> <<>>]
             ELSE [stack |-> Append(rest, [f EXCEPT !.phase = "combine",
                                                    !.moves = f.moves \o v]),
                   done |-> FALSE, out |-> <<>>]

\* thread wk of RegionShrinkingDCSolver after its next step, having read
\* cancel from search_cancel: a call of _solve_dc from its entry to its
\* first recursive call or its return, or the combine step of a call
RsStep(v, wk, cancel) ==
    LET f == wk.stack[Len(wk.stack)]
        rest == SubSeq(wk.stack, 1, Len(wk.stack) - 1)
        finish(r, p, saw) ==
            IF r.done
            THEN [wk EXCEPT !.pc = "deliver", !.stack = <<>>, !.out = r.out,
                            !.pegs = p, !.saw_cancel = saw]
            ELSE [wk EXCEPT !.stack = r.stack, !.pegs = p, !.saw_cancel = saw]
        step(kind, left, right, moves) ==
            [kind |-> kind, nodes |-> f.nodes, by_row |-> f.by_row, left |-> left,
             right |-> right, from |-> wk.pegs, moves |-> moves]
    IN  IF f.phase = "enter"
        THEN IF cancel
             THEN [finish(RsReturn(rest, <<>>), wk.pegs, TRUE)
                    EXCEPT !.last = step("cancel", <<>>, <<>>, <<>>)]
             ELSE IF Len(f.nodes) <= 3
             THEN LET b == _solve_small_region_priority(v, f.nodes, wk.pegs)
                  IN  [finish(RsReturn(rest, b.moves), b.pegs, wk.saw_cancel)
                        EXCEPT !.last = step("base", <<>>, <<>>, b.moves)]
             ELSE LET halves == _spatial_split(v, f.nodes, f.by_row)
                  IN  [wk EXCEPT !.stack =
                        rest \o <<[f EXCEPT !.phase = "left", !.left = halves[1],
                                            !.right = halves[2]],
                                  DcFrame(halves[1], ~f.by_row)>>,
                       !.last = step("split", halves[1], halves[2], <<>>)]
        ELSE LET c == _execute_cross_boundary_moves_priority(v, f.left, f.right, wk.pegs)
             IN  [finish(RsReturn(rest, f.moves \o c.moves), c.pegs, wk.saw_cancel)
                    EXCEPT !.last = step("combine", f.left, f.right, c.moves)]

\* _threaded_search: pegs = self.game.pegs[:] and the call of _solve_dc
rs_worker_copy(w) ==
    /\ variant = "region"
    /\ workers[w].pc = "copy"
    /\ f_last' = "worker"
    /\ LET src == IF workers[w].live THEN pegs ELSE workers[w].game
       IN  workers' = [workers EXCEPT ![w] =
                [@ EXCEPT !.pc = "run", !.live = FALSE, !.game = <<>>,
                          !.snap = src, !.pegs = src,
                          !.stack = <<DcFrame(AllNodes(version), TRUE)>>]]
    /\ UNCHANGED <<pegs, history, selected_node, autoplay_running, autoplay_moves,
                   autoplay_index, searching, step_timers, solver, solvers,
                   after_queue, gui>>

\* the thread with game.pegs as its scratch list: it reads the pegs the
\* game has now and writes its moves to them
rs_worker_step_shares_game(w) ==
    /\ variant = "region"
    /\ workers[w].pc = "run"
    /\ f_last' = "worker"
    /\ workers' = [workers EXCEPT ![w] =
                    RsStep(version, [workers[w] EXCEPT !.pegs = pegs],
                           solvers[workers[w].sid].search_cancel)]
    /\ pegs' = workers'[w].pegs
    /\ UNCHANGED <<history, selected_node, autoplay_running, autoplay_moves,
                   autoplay_index, searching, step_timers, solver, solvers,
                   after_queue, gui>>

\* the thread that writes its moves to game.pegs as well
rs_worker_step_on_game(w) ==
    /\ variant = "region"
    /\ workers[w].pc = "run"
    /\ f_last' = "worker"
    /\ workers' = [workers EXCEPT ![w] =
                    RsStep(version, workers[w], solvers[workers[w].sid].search_cancel)]
    /\ pegs' = workers'[w].pegs
    /\ UNCHANGED <<history, selected_node, autoplay_running, autoplay_moves,
                   autoplay_index, searching, step_timers, solver, solvers,
                   after_queue, gui>>

\* a step of the thread: the next call of _solve_dc or combine step
rs_worker_step(w) ==
    /\ variant = "region"
    /\ workers[w].pc = "run"
    /\ f_last' = "worker"
    /\ workers' = [workers EXCEPT ![w] =
                    RsStep(version, workers[w], solvers[workers[w].sid].search_cancel)]
    /\ UNCHANGED <<pegs, history, selected_node, autoplay_running, autoplay_moves,
                   autoplay_index, searching, step_timers, solver, solvers,
                   after_queue, gui>>

\* the thread ends: the solver objects after thread w is gone
ThreadEnds(ss, w) ==
    Collect([ss EXCEPT ![workers[w].sid].search_thread = IF @ = w THEN 0 ELSE @],
            [workers EXCEPT ![w] = FreeWorker], solver)

\* the end of _threaded_search: solution = None when search_cancel is set,
\* then after(0, self.callback, solution if solution else None)
rs_worker_deliver(w) ==
    /\ variant = "region"
    /\ workers[w].pc = "deliver"
    /\ f_last' = "deliver"
    /\ LET s == solvers[workers[w].sid]
       IN  after_queue' =
               IF s.callback = "None" THEN after_queue
               ELSE Append(after_queue,
                        [callback |-> s.callback,
                         solution |-> IF s.search_cancel THEN <<>> ELSE workers[w].out,
                         cancelled |-> workers[w].saw_cancel \/ s.search_cancel,
                         before_restart |-> workers[w].before_restart])
    /\ workers' = [workers EXCEPT ![w] =
                    EndedWorker(workers[w],
                                workers[w].saw_cancel \/ solvers[workers[w].sid].search_cancel,
                                solvers[workers[w].sid].callback)]
    /\ solvers' = ThreadEnds(solvers, w)
    /\ UNCHANGED <<pegs, history, selected_node, autoplay_running, autoplay_moves,
                   autoplay_index, searching, step_timers, solver, gui>>

\* thread wk of DivideAndConquerSolver after its next call of _solve
DcStep(v, wk, cancel) ==
    LET r == SolveCall(v, wk.stack, wk.call, cancel)
    IN  IF r.done
        THEN [wk EXCEPT !.pc = "deliver", !.stack = <<>>, !.call = {},
                        !.out = r.path, !.out_pegs = r.pegs,
                        !.saw_cancel = @ \/ cancel, !.calls = @ + 1]
        ELSE [wk EXCEPT !.stack = r.stack, !.call = r.call,
                        !.saw_cancel = @ \/ cancel, !.calls = @ + 1]

\* a thread makes at most MaxCalls calls of _solve: a search on a board
\* with many pegs does not come to its end
dc_worker_step(w) ==
    /\ variant = "exhaustive"
    /\ workers[w].pc = "run"
    /\ workers[w].calls < MaxCalls
    /\ f_last' = "worker"
    /\ workers' = [workers EXCEPT ![w] =
                    DcStep(version, workers[w], solvers[workers[w].sid].search_cancel)]
    /\ UNCHANGED <<pegs, history, selected_node, autoplay_running, autoplay_moves,
                   autoplay_index, searching, step_timers, solver, solvers,
                   after_queue, gui>>

\* the end of _threaded_solve: solution_cache = id_solution, then
\* after(0, self.callback, id_solution)
dc_worker_deliver(w) ==
    /\ variant = "exhaustive"
    /\ workers[w].pc = "deliver"
    /\ f_last' = "deliver"
    /\ LET s == solvers[workers[w].sid]
           id_solution == IdSolution(workers[w].out)
       IN  /\ after_queue' =
                IF s.callback = "None" THEN after_queue
                ELSE Append(after_queue,
                        [callback |-> s.callback, solution |-> id_solution,
                         cancelled |-> workers[w].saw_cancel,
                         before_restart |-> workers[w].before_restart])
           /\ solvers' = ThreadEnds(
                [solvers EXCEPT ![workers[w].sid].solution_cache = id_solution], w)
    /\ workers' = [workers EXCEPT ![w] =
                    EndedWorker(workers[w], workers[w].saw_cancel,
                                solvers[workers[w].sid].callback)]
    /\ UNCHANGED <<pegs, history, selected_node, autoplay_running, autoplay_moves,
                   autoplay_index, searching, step_timers, solver, gui>>

----------------------------------------------------------------------------
(* Specifications *)

\* the GameState of a board: any jump of the board may be passed to
\* execute_move, since the method does not look at the pegs
Init ==
    /\ version \in Versions
    /\ TopoIdle
    /\ GameStateInit
    /\ MainIdle
    /\ FrameIdle

Next ==
    \/ \E k \in 1..Len(GraphJumps(version)) :
            execute_move(GraphJumps(version)[k]) /\ UNCHANGED <<version, topoVars, mainVars, frameVars>>
    \/ undo /\ UNCHANGED <<version, topoVars, mainVars, frameVars>>
    \/ get_legal_moves /\ UNCHANGED <<version, topoVars, mainVars, frameVars>>

Spec == Init /\ [][Next]_vars

\* the construction of a BoardGraph
GameIdle ==
    /\ pegs = <<>> /\ history = <<>>
    /\ op = "init" /\ prevOp = "none" /\ arg = <<>> /\ ret = "None" /\ ret_moves = <<>> /\ pre = <<>>
    /\ applied = 0 /\ undone = 0 /\ illegal = 0 /\ occ = <<>>

TopoInit ==
    /\ version \in Versions
    /\ BoardGraphInit
    /\ GameIdle
    /\ MainIdle
    /\ FrameIdle

TopoNext ==
    \/ build_board_layout /\ UNCHANGED <<version, gameVars, mainVars, frameVars>>
    \/ build_adjacency_matrix /\ UNCHANGED <<version, gameVars, mainVars, frameVars>>
    \/ precompute_jumps /\ UNCHANGED <<version, gameVars, mainVars, frameVars>>
    \/ precompute_neighbors /\ UNCHANGED <<version, gameVars, mainVars, frameVars>>

SpecTopo == TopoInit /\ [][TopoNext]_vars

\* the identifiers a caller may pass to BoardGraph(version): the two the
\* program knows and one it does not
ShapeIds == Versions \cup {"triangle"}

\* the construction of a BoardGraph from any identifier
ShapeInit ==
    /\ version \in ShapeIds
    /\ BoardGraphInit
    /\ GameIdle
    /\ MainIdle
    /\ FrameIdle

SpecShape == ShapeInit /\ [][TopoNext]_vars

\* the game of main.py
MainInit ==
    /\ version \in Versions
    /\ TopoIdle
    /\ GameIdle
    /\ PegSolitaireGUIInit
    /\ FrameIdle

\* a jump is made only on a board with fewer than MaxJumps jumps behind it
JumpBudget == board' # board => JumpsMade(version, board) < MaxJumps

MainNext ==
    \/ \E r \in -1..6, c \in 0..6 :
            on_click(r, c) /\ JumpBudget /\ UNCHANGED <<topoVars, gameVars, frameVars>>
    \/ undo_move /\ UNCHANGED <<topoVars, gameVars, frameVars>>
    \/ toggle_auto_play /\ JumpBudget /\ UNCHANGED <<topoVars, gameVars, frameVars>>
    \/ greedy_auto_play /\ JumpBudget /\ UNCHANGED <<topoVars, gameVars, frameVars>>
    \/ greedy_hint /\ UNCHANGED <<topoVars, gameVars, frameVars>>
    \/ restart /\ UNCHANGED <<topoVars, gameVars, frameVars>>
    \/ \E confirm \in BOOLEAN : switch_version(confirm) /\ UNCHANGED <<topoVars, gameVars, frameVars>>

SpecMain == MainInit /\ [][MainNext]_vars

\* the grid of main.py after the first k jumps of the line
LineBoard(v, k) ==
    [r \in 0..6 |-> [c \in 0..6 |->
        IF InitialBoard(v)[r][c] = -1 THEN -1
        ELSE PlayedPegs(v, k)[GraphIds(v)[<<r, c>>]]]]

\* the game of main.py after the player has clicked the first k jumps of
\* the line, k of the last FromEnd before the last: on_click has pushed the
\* board after each jump on move_history
EndgameInit ==
    /\ version \in Versions
    /\ TopoIdle
    /\ GameIdle
    /\ FrameIdle
    /\ \E k \in (Len(GameLine(version)) - FromEnd)..(Len(GameLine(version)) - 1) :
            /\ board = LineBoard(version, k)
            /\ move_history = [n \in 1..k |-> LineBoard(version, n)]
            /\ move_count = k
    /\ selected = <<>> /\ pegs_count = CountPegs(board)
    /\ game_over_flag = FALSE /\ auto_play_running = FALSE
    /\ timers = 0 /\ hint = <<>> /\ m_last = "other" /\ m_pre = <<>>

\* undo_move takes the game back no further than FromEnd jumps before the
\* end of the line
EndgameBudget == JumpsMade(version, board') >= Len(GameLine(version)) - FromEnd

EndgameNext ==
    \/ \E r \in -1..6, c \in 0..6 :
            on_click(r, c) /\ UNCHANGED <<topoVars, gameVars, frameVars>>
    \/ undo_move /\ EndgameBudget /\ UNCHANGED <<topoVars, gameVars, frameVars>>
    \/ toggle_auto_play /\ UNCHANGED <<topoVars, gameVars, frameVars>>
    \/ greedy_auto_play /\ UNCHANGED <<topoVars, gameVars, frameVars>>
    \/ greedy_hint /\ UNCHANGED <<topoVars, gameVars, frameVars>>

SpecEndgame == EndgameInit /\ [][EndgameNext]_vars

\* the game of main.py played with the buttons alone: auto-play runs to the
\* end of the game
AutoNext ==
    \/ undo_move /\ UNCHANGED <<topoVars, gameVars, frameVars>>
    \/ toggle_auto_play /\ UNCHANGED <<topoVars, gameVars, frameVars>>
    \/ greedy_auto_play /\ UNCHANGED <<topoVars, gameVars, frameVars>>
    \/ greedy_hint /\ UNCHANGED <<topoVars, gameVars, frameVars>>
    \/ restart /\ UNCHANGED <<topoVars, gameVars, frameVars>>
    \/ \E confirm \in BOOLEAN : switch_version(confirm) /\ UNCHANGED <<topoVars, gameVars, frameVars>>

SpecAuto == MainInit /\ [][AutoNext]_vars

\* a GameFrame: what the other parts of the model do meanwhile
FrameRest == UNCHANGED <<version, variant, topoVars, gameGhost, mainVars>>

\* the player clicks on the board and on the buttons at most MaxClicks
\* times, the clicks without effect not counted
ClickBudget(max) ==
    /\ clicks' = IF selected_node' # selected_node \/ pegs' # pegs \/ solver' # solver
                    \/ solvers' # solvers \/ searching' # searching
                    \/ autoplay_running' # autoplay_running
                 THEN clicks + 1 ELSE clicks
    /\ clicks' <= max

\* the holes the player clicks on: the pegs that can jump and the holes a
\* peg can jump into
ClickHoles ==
    {j[1] : j \in SetOf(LegalMoves(version, pegs))}
        \cup {j[3] : j \in SetOf(LegalMoves(version, pegs))}

\* the handlers of the frame
FrameNext(max) ==
    \/ \E clicked \in ClickHoles :
            frame_on_click(clicked) /\ ClickBudget(max) /\ FrameRest
    \/ frame_undo_move /\ ClickBudget(max) /\ FrameRest
    \/ restart_game /\ ClickBudget(max) /\ FrameRest
    \/ show_hint /\ ClickBudget(max) /\ FrameRest
    \/ on_exit /\ clicks' = clicks + 1 /\ clicks' <= max /\ FrameRest
    \/ toggle_autoplay /\ step_timers' <= MaxStepTimers /\ ClickBudget(max) /\ FrameRest
    \/ run_autoplay_step /\ UNCHANGED clicks /\ FrameRest
    \/ after_callback /\ step_timers' <= MaxStepTimers /\ UNCHANGED clicks /\ FrameRest
    \/ join_returns /\ UNCHANGED clicks /\ FrameRest

\* the GameFrame of Pegsolitaire5.py on a new board, with the threads of
\* its RegionShrinkingDCSolver
RegionInit ==
    /\ version \in Versions
    /\ TopoIdle
    /\ op = "init" /\ prevOp = "none" /\ arg = <<>> /\ ret = "None" /\ ret_moves = <<>>
    /\ pre = <<>> /\ applied = 0 /\ undone = 0 /\ illegal = 0 /\ occ = <<>>
    /\ MainIdle
    /\ GameFrameInit("region", 0)

RegionNext ==
    \/ FrameNext(MaxRegionClicks)
    \/ \E w \in WorkerIds : rs_worker_copy(w) /\ UNCHANGED clicks /\ FrameRest
    \/ \E w \in WorkerIds : rs_worker_step(w) /\ UNCHANGED clicks /\ FrameRest
    \/ \E w \in WorkerIds : rs_worker_deliver(w) /\ UNCHANGED clicks /\ FrameRest

SpecRegion == RegionInit /\ [][RegionNext]_vars

\* the GameFrame of pegdc.py after the player played the line up to one of
\* its last FromEnd positions, with the threads of its
\* DivideAndConquerSolver
ExhaustiveInit ==
    /\ version \in Versions
    /\ TopoIdle
    /\ op = "init" /\ prevOp = "none" /\ arg = <<>> /\ ret = "None" /\ ret_moves = <<>>
    /\ pre = <<>> /\ applied = 0 /\ undone = 0 /\ illegal = 0 /\ occ = <<>>
    /\ MainIdle
    /\ \E k \in (Len(GameLine(version)) - FromEnd)..Len(GameLine(version)) :
            GameFrameInit("exhaustive", k)

ExhaustiveNext ==
    \/ FrameNext(MaxClicks)
    \/ \E w \in WorkerIds : dc_worker_step(w) /\ UNCHANGED clicks /\ FrameRest
    \/ \E w \in WorkerIds : dc_worker_deliver(w) /\ UNCHANGED clicks /\ FrameRest

SpecExhaustive == ExhaustiveInit /\ [][ExhaustiveNext]_vars

\* a solver of either class on a game in one of the last FromEnd positions
\* of the line, its public interface called at any time by the interactive
\* context (clicks counts the calls); the callbacks do nothing
SolverInit ==
    /\ version \in Versions
    /\ TopoIdle
    /\ op = "init" /\ prevOp = "none" /\ arg = <<>> /\ ret = "None" /\ ret_moves = <<>>
    /\ pre = <<>> /\ applied = 0 /\ undone = 0 /\ illegal = 0 /\ occ = <<>>
    /\ MainIdle
    /\ \E var \in {"region", "exhaustive"} :
       \E k \in (Len(GameLine(version)) - FromEnd)..Len(GameLine(version)) :
            GameFrameInit(var, k)

SolverRest ==
    UNCHANGED <<version, variant, topoVars, gameVars, mainVars, selected_node,
                autoplay_running, autoplay_moves, autoplay_index, searching,
                step_timers, solver>>

call_start_solving(callback) ==
    /\ gui.at = "idle"
    /\ clicks < MaxRequests
    /\ clicks' = clicks + 1
    /\ f_last' = "gui"
    /\ start_solving(callback)
    /\ UNCHANGED after_queue

call_cancel_solving ==
    /\ gui.at = "idle"
    /\ clicks < MaxRequests
    /\ clicks' = clicks + 1
    /\ f_last' = "gui"
    /\ cancel_solving
    /\ UNCHANGED after_queue

\* the main loop runs the callback a thread scheduled first
call_callback ==
    /\ gui.at = "idle"
    /\ Len(after_queue) > 0
    /\ f_last' = "gui"
    /\ after_queue' = Tail(after_queue)
    /\ UNCHANGED <<solvers, workers, gui, clicks>>

SolverNext ==
    \/ \E callback \in {"_on_hint_solution", "_on_autoplay_solution"} :
            call_start_solving(callback) /\ SolverRest
    \/ call_cancel_solving /\ SolverRest
    \/ call_callback /\ SolverRest
    \/ join_returns /\ UNCHANGED clicks /\ FrameRest
    \/ \E w \in WorkerIds : rs_worker_copy(w) /\ UNCHANGED clicks /\ FrameRest
    \/ \E w \in WorkerIds : rs_worker_step(w) /\ UNCHANGED clicks /\ FrameRest
    \/ \E w \in WorkerIds : rs_worker_deliver(w) /\ UNCHANGED clicks /\ FrameRest
    \/ \E w \in WorkerIds : dc_worker_step(w) /\ UNCHANGED clicks /\ FrameRest
    \/ \E w \in WorkerIds : dc_worker_deliver(w) /\ UNCHANGED clicks /\ FrameRest

SpecSolver == SolverInit /\ [][SolverNext]_vars

\* the steps of thread w: a daemon thread the interpreter keeps scheduling
WorkerRuns(w) ==
    \/ rs_worker_copy(w) /\ UNCHANGED clicks /\ FrameRest
    \/ rs_worker_step(w) /\ UNCHANGED clicks /\ FrameRest
    \/ rs_worker_deliver(w) /\ UNCHANGED clicks /\ FrameRest
    \/ dc_worker_step(w) /\ UNCHANGED clicks /\ FrameRest
    \/ dc_worker_deliver(w) /\ UNCHANGED clicks /\ FrameRest

\* the solver interface under fair scheduling: every thread that can take
\* a step takes one, join(timeout = 0.1) returns, and the event loop runs
\* the callbacks after(0, ...) queued; the calls of start_solving and
\* cancel_solving are the caller's choice
SpecSolverFair ==
    /\ SolverInit
    /\ [][SolverNext]_vars
    /\ \A w \in WorkerIds : WF_vars(WorkerRuns(w))
    /\ WF_vars(join_returns /\ UNCHANGED clicks /\ FrameRest)
    /\ WF_vars(call_callback /\ SolverRest)
\* thread w of the region solver takes a step of _solve_dc: the step of
\* rs_worker_step(w), told by what it changes
RsStepTaken(w) ==
    /\ variant = "region" /\ workers[w].pc = "run"
    /\ f_last' = "worker" /\ workers'[w] # workers[w]

\* the region-shrinking game under fair scheduling: every thread that can
\* take a step takes one, join(timeout = 0.1) returns, and the event loop
\* runs the callbacks queued with after(0, ...) and the calls of
\* run_autoplay_step scheduled with after(600, ...); the clicks are the
\* player's choice. The weak fairness of rs_worker_step(w) is written out:
\* the step is enabled exactly while the thread is at "run"
SpecRegionFair ==
    /\ RegionInit
    /\ [][RegionNext]_vars
    /\ \A w \in WorkerIds : WF_vars(rs_worker_copy(w) /\ UNCHANGED clicks /\ FrameRest)
    /\ \A w \in WorkerIds :
            \/ []<>(workers[w].pc # "run")
            \/ []<><<RsStepTaken(w)>>_vars
    /\ \A w \in WorkerIds : WF_vars(rs_worker_deliver(w) /\ UNCHANGED clicks /\ FrameRest)
    /\ WF_vars(join_returns /\ UNCHANGED clicks /\ FrameRest)
    /\ WF_vars(after_callback /\ step_timers' <= MaxStepTimers /\ UNCHANGED clicks /\ FrameRest)
    /\ WF_vars(run_autoplay_step /\ UNCHANGED clicks /\ FrameRest)

\* the stepwise construction ends in the graph the game uses
TopoAgrees ==
    tpc = "done" =>
        /\ nodes = GraphNodes(version)
        /\ node_to_id = GraphIds(version)
        /\ valid_jumps = GraphJumps(version)

TypeOK ==
    /\ \A i \in DOMAIN pegs : pegs[i] \in {0, 1}
    /\ applied <= MaxMoves
    /\ timers <= MaxTimers

----------------------------------------------------------------------------
(* Properties of GameState, checked under Spec *)

\* the hole at grid coordinate rc of the board of the running game
HoleAt(rc) == GraphIds(version)[rc]

\* C1: a legal execute_move lowers the peg count by exactly one: start and
\* mid become empty, end gets the peg, every other hole keeps its value; on
\* the initial cross board the jump from above the centre leaves 31 pegs
\* with the centre occupied.
C1_LegalMoveRemovesOnePeg ==
    (op = "execute_move" /\ pre[arg[1]] = 1 /\ pre[arg[2]] = 1 /\ pre[arg[3]] = 0) =>
        /\ get_peg_count(pegs) = get_peg_count(pre) - 1
        /\ pegs[arg[1]] = 0 /\ pegs[arg[2]] = 0 /\ pegs[arg[3]] = 1
        /\ \A i \in DOMAIN pegs \ {arg[1], arg[2], arg[3]} : pegs[i] = pre[i]
        /\ ( /\ version = "english" /\ applied = 1
             /\ arg = <<HoleAt(<<1, 3>>), HoleAt(<<2, 3>>), HoleAt(<<3, 3>>)>> )
           => (get_peg_count(pegs) = 31 /\ pegs[HoleAt(<<3, 3>>)] = 1)

C1_Witness ==
    /\ op = "execute_move" /\ version = "english" /\ applied = 1 /\ illegal = 0
    /\ arg = <<HoleAt(<<1, 3>>), HoleAt(<<2, 3>>), HoleAt(<<3, 3>>)>>
    /\ get_peg_count(pre) = 32 /\ get_peg_count(pegs) = 31

\* C2: an execute_move with a move that is not legal is rejected with an
\* IllegalMoveError and changes neither the pegs nor the history.
C2_IllegalMoveRejected ==
    [][(op' = "execute_move" /\ applied' = applied + 1
            /\ ~(pegs[arg'[1]] = 1 /\ pegs[arg'[2]] = 1 /\ pegs[arg'[3]] = 0))
        => (pegs' = pegs /\ history' = history /\ ret' = "IllegalMoveError")]_vars

\* C3: undo right after a legal execute_move returns True and restores the
\* pegs the move was applied to.
C3_UndoInvertsExecute ==
    [][(op = "execute_move" /\ pre[arg[1]] = 1 /\ pre[arg[2]] = 1 /\ pre[arg[3]] = 0
            /\ op' = "undo")
        => (pegs' = pre /\ ret' = "True")]_vars

C3_Witness ==
    /\ op = "undo" /\ prevOp = "execute_move" /\ ret = "True"
    /\ illegal = 0 /\ applied = 2 /\ undone = 1
    /\ get_peg_count(pegs) = get_peg_count(pre) + 1

\* C5: undo with an empty history returns False and changes neither the
\* pegs nor the history.
C5_UndoOnEmptyHistory ==
    [][(op' = "undo" /\ prevOp' = op /\ history = <<>>)
        => (ret' = "False" /\ pegs' = pegs /\ history' = <<>>)]_vars

C5_Witness ==
    /\ op = "undo" /\ ret = "False" /\ history = <<>>
    /\ applied = 1 /\ undone = 1

\* C6: the history holds one snapshot per move not undone yet, the length
\* is the number of moves applied minus the number of successful undos,
\* the snapshots are the occupancies the moves were applied to, and the
\* pegs are the occupancy after the moves that are not undone.
C6_HistoryIsLifo ==
    /\ Len(history) = applied - undone
    /\ Len(occ) = Len(history) + 1
    /\ \A k \in 1..Len(history) : history[k] = occ[k]
    /\ pegs = occ[Len(occ)]

C6_Witness ==
    /\ op = "undo" /\ applied = 3 /\ undone = 2 /\ Len(history) = 1
    /\ pegs # occ[1]

\* C7: get_legal_moves returns the jumps of the board that have a peg on
\* start and mid and none on end, each once, in the order of valid_jumps,
\* and changes neither the pegs nor the history.
C7_LegalMovesExact ==
    [][(op' = "get_legal_moves" /\ prevOp' = op) =>
        LET J == GraphJumps(version)
            R == ret_moves'
            InR(j) == {k \in 1..Len(R) : R[k] = j}
            Pos(k) == CHOOSE i \in 1..Len(J) : J[i] = R[k]
        IN  /\ pegs' = pegs /\ history' = history
            /\ \A k \in 1..Len(R) : \E i \in 1..Len(J) : J[i] = R[k]
            /\ \A i \in 1..Len(J) :
                    Cardinality(InR(J[i])) =
                        IF pegs[J[i][1]] = 1 /\ pegs[J[i][2]] = 1 /\ pegs[J[i][3]] = 0
                        THEN 1 ELSE 0
            /\ \A k \in 1..(Len(R) - 1) : Pos(k) < Pos(k + 1)]_vars

C7_Witness ==
    /\ op = "get_legal_moves" /\ applied = 2 /\ undone = 0
    /\ Len(ret_moves) >= 2 /\ Len(ret_moves) < Len(GraphJumps(version))

\* C8: a new GameState of the cross layout has 33 holes with a peg in all
\* but the centre (3,3), and get_legal_moves returns exactly the 4 jumps
\* that land on the centre from two steps away along a row or a column.
C8_FreshCrossBoard ==
    (version = "english" /\ applied = 0) =>
        /\ Cardinality(DOMAIN pegs) = 33
        /\ \A i \in DOMAIN pegs :
                pegs[i] = IF GraphNodes(version)[i + 1] = <<3, 3>> THEN 0 ELSE 1
        /\ op = "get_legal_moves" =>
            /\ Len(ret_moves) = 4
            /\ {GraphNodes(version)[ret_moves[k][1] + 1] : k \in 1..Len(ret_moves)}
                    = {<<1, 3>>, <<5, 3>>, <<3, 1>>, <<3, 5>>}
            /\ \A k \in 1..Len(ret_moves) :
                    LET s == GraphNodes(version)[ret_moves[k][1] + 1]
                        m == GraphNodes(version)[ret_moves[k][2] + 1]
                        e == GraphNodes(version)[ret_moves[k][3] + 1]
                    IN  /\ e = <<3, 3>>
                        /\ 2 * m[1] = s[1] + e[1] /\ 2 * m[2] = s[2] + e[2]

C8_Witness ==
    /\ version = "english" /\ applied = 0 /\ op = "get_legal_moves"
    /\ Len(ret_moves) = 4 /\ get_peg_count(pegs) = 32

----------------------------------------------------------------------------
(* Properties of BoardGraph, checked under SpecTopo *)

\* the four axis steps
AxisSteps == {<<-1, 0>>, <<1, 0>>, <<0, -1>>, <<0, 1>>}

\* the coordinate of hole i of the graph under construction
Coord(i) == nodes[i + 1]

\* C9: valid_jumps holds exactly the triples whose mid is one grid step and
\* whose end is two grid steps from start in one axis direction, all three
\* being holes; the three holes of a triple differ, mid lies between start
\* and end, and start-mid and mid-end are adjacent in adj_matrix.
C9_JumpsAreTheAxisTriples ==
    tpc = "done" =>
        LET n == Len(nodes)
            listed == {valid_jumps[k] : k \in 1..Len(valid_jumps)}
            geometric == {t \in (0..(n - 1)) \X (0..(n - 1)) \X (0..(n - 1)) :
                            \E d \in AxisSteps :
                                /\ Coord(t[2]) = <<Coord(t[1])[1] + d[1], Coord(t[1])[2] + d[2]>>
                                /\ Coord(t[3]) = <<Coord(t[1])[1] + 2 * d[1], Coord(t[1])[2] + 2 * d[2]>>}
        IN  /\ listed = geometric
            /\ Cardinality(listed) = Len(valid_jumps)
            /\ \A t \in listed :
                /\ t[1] # t[2] /\ t[2] # t[3] /\ t[1] # t[3]
                /\ 2 * Coord(t[2])[1] = Coord(t[1])[1] + Coord(t[3])[1]
                /\ 2 * Coord(t[2])[2] = Coord(t[1])[2] + Coord(t[3])[2]
                /\ adj_matrix[t[1]][t[2]] = 1 /\ adj_matrix[t[2]][t[3]] = 1

C9_Witness ==
    /\ tpc = "done" /\ version = "european"
    /\ Len(nodes) = 37 /\ Len(valid_jumps) > 0

\* C10: the jumps are symmetric under direction: (s, m, e) is a jump iff
\* (e, m, s) is one, so a hole starts a jump iff it ends the opposite one.
C10_JumpsAreSymmetric ==
    tpc = "done" =>
        LET listed == {valid_jumps[k] : k \in 1..Len(valid_jumps)}
        IN  /\ \A t \in listed : <<t[3], t[2], t[1]>> \in listed
            /\ {t[1] : t \in listed} = {t[3] : t \in listed}

C10_Witness ==
    /\ tpc = "done" /\ version = "english"
    /\ Len(nodes) = 33 /\ Len(valid_jumps) > 0

\* C11: building a topology fails exactly for an identifier that is not a
\* recognised shape: the construction of a BoardGraph from an unrecognised
\* identifier never appends a hole and never completes
C11_UnknownShapeYieldsNoBoard ==
    version \notin Versions => (Len(nodes) = 0 /\ tpc # "done")

----------------------------------------------------------------------------
(* Properties of the game of main.py, checked under SpecMain *)

\* C4: when the player makes a jump with a click and then presses Undo, the
\* board is again the board that existed before the jump.
C4_UndoRestoresBoardBeforeJump ==
    [][(m_last = "jump" /\ m_last' = "undo") => board' = m_pre]_vars

\* the score of the greedy evaluator as the specification states it: ten
\* times the number of legal moves after move m, plus five when m lands in
\* the central 3 x 3 sub-grid
MobilityScore(b, m) ==
    10 * Len(get_valid_moves(Jumped(b, m[1], m[2], m[3], m[4])))
        + (IF m[3] \in 2..4 /\ m[4] \in 2..4 THEN 5 ELSE 0)

\* move m has the largest key among moves and is the first one with it
FirstMaximiser(moves, m, key(_)) ==
    \E k \in 1..Len(moves) :
        /\ moves[k] = m
        /\ \A j \in 1..Len(moves) :
                /\ key(moves[j]) <= key(m)
                /\ j < k => key(moves[j]) < key(m)

----------------------------------------------------------------------------
(* Properties of the game of main.py, checked under SpecAuto *)

\* a jump of the grid game: a peg two cells away from an empty cell of the
\* grid, in a row or a column, with a peg between them
IsGridJump(b, m) ==
    /\ <<m[1], m[2]>> \in Cells /\ <<m[3], m[4]>> \in Cells
    /\ (m[1] = m[3] /\ Abs(m[2] - m[4]) = 2) \/ (m[2] = m[4] /\ Abs(m[1] - m[3]) = 2)
    /\ b[m[1]][m[2]] = 1
    /\ b[(m[1] + m[3]) \div 2][(m[2] + m[4]) \div 2] = 1
    /\ b[m[3]][m[4]] = 0

HasGridJump(b) == \E src \in Cells, dest \in Cells : IsGridJump(b, src \o dest)

\* C13: the call of get_greedy_move in greedy_hint returns None exactly when
\* the board has no legal move and otherwise a move that is legal on the
\* board, and it leaves board, move_history and move_count as they were
C13_GreedyMoveIsLegalOrNone ==
    [][m_last' = "hint" =>
            /\ (hint' = <<>>) <=> ~HasGridJump(board)
            /\ hint' # <<>> => IsGridJump(board, hint')
            /\ UNCHANGED <<board, move_history, move_count>>]_vars

\* a hint asked for after auto-play ran into a board without a legal move
C13_Witness ==
    /\ m_last = "hint" /\ hint = <<>>
    /\ move_count > 0 /\ CountPegs(board) > 1
    /\ ~HasGridJump(board)

----------------------------------------------------------------------------
(* Properties of the two solvers, checked under SpecSolver *)

\* C14: every step of a search thread of either solver, from the copy of the
\* pegs to the delivery of the result, leaves game.pegs and game.history as
\* they are
C14_SearchLeavesGameState ==
    [][f_last' \in {"worker", "deliver"} => UNCHANGED <<pegs, history>>]_vars

\* a thread has ended and delivered moves, which it made on its own copy
C14_Witness ==
    /\ f_last = "deliver"
    /\ Len(after_queue) > 0
    /\ Len(after_queue[Len(after_queue)].solution) > 0
    /\ pegs = PlayedPegs(version, Len(history))

----------------------------------------------------------------------------
(* Properties of the region-shrinking solver in its game, checked under *)
(* SpecRegion *)

\* moves is a valid solution from the pegs p: each move is a jump of the
\* board with a peg on its start and its middle and none on its end, on the
\* pegs the moves before it leave, and takes exactly one peg off
RECURSIVE ValidSolution(_, _, _)
ValidSolution(v, p, moves) ==
    \/ Len(moves) = 0
    \/ LET s == moves[1][1]
           m == moves[1][2]
           e == moves[1][3]
           q == [p EXCEPT ![s] = 0, ![m] = 0, ![e] = 1]
       IN  /\ \E k \in 1..Len(GraphJumps(v)) : GraphJumps(v)[k] = moves[1]
           /\ p[s] = 1 /\ p[m] = 1 /\ p[e] = 0
           /\ get_peg_count(q) = get_peg_count(p) - 1
           /\ ValidSolution(v, q, Tail(moves))

\* C15: the moves a thread of the region solver returns, when it saw no
\* cancellation, are a valid solution from the pegs it copied
C15_RegionResultIsValid ==
    \A w \in WorkerIds :
        workers[w].pc = "deliver" /\ ~workers[w].saw_cancel
            => ValidSolution(version, workers[w].snap, workers[w].out)

\* a search on a board on which moves were played returns several moves
C15_Witness ==
    \E w \in WorkerIds :
        /\ workers[w].pc = "deliver" /\ ~workers[w].saw_cancel
        /\ Len(workers[w].out) > 1
        /\ workers[w].snap # InitialPegs(version)

\* C16: the moves a thread of the region solver returns, when it saw no
\* cancellation, are those of _solve_dc on the board and the pegs it copied,
\* whatever the game, the interactive context and the other threads did
\* during the search: two such runs from the same pegs return the same moves
C16_RegionResultDependsOnSnapshotOnly ==
    \A w \in WorkerIds :
        workers[w].pc = "deliver" /\ ~workers[w].saw_cancel
            => LET r == _solve_dc(version, AllNodes(version), workers[w].snap, TRUE)
               IN  workers[w].out = r.moves /\ workers[w].pegs = r.pegs

\* a search that returns moves although the game was restarted during it
C16_Witness ==
    \E w \in WorkerIds :
        /\ workers[w].pc = "deliver" /\ ~workers[w].saw_cancel
        /\ Len(workers[w].out) > 0
        /\ workers[w].snap # InitialPegs(version)
        /\ pegs = InitialPegs(version)

----------------------------------------------------------------------------
(* Properties of the exhaustive solver in its game, checked under *)
(* SpecExhaustive *)

\* the bitboards one legal jump away from bb
JumpSuccessors(v, bb) ==
    {(bb \ {GraphJumps(v)[k][1], GraphJumps(v)[k][2]}) \cup {GraphJumps(v)[k][3]} :
        k \in {i \in 1..Len(GraphJumps(v)) :
                    /\ GraphJumps(v)[i][1] \in bb /\ GraphJumps(v)[i][2] \in bb
                    /\ GraphJumps(v)[i][3] \notin bb}}

\* the bitboards reachable by legal jumps: seen, and what frontier leads to
RECURSIVE ReachableFrom(_, _, _)
ReachableFrom(v, seen, frontier) ==
    IF frontier = {} THEN seen
    ELSE LET found == UNION {JumpSuccessors(v, bb) : bb \in frontier} \ seen
         IN  ReachableFrom(v, seen \cup found, found)

\* the smallest number of pegs of a position without a legal jump that can
\* be reached from bb
MinPegsRemaining(v, bb) ==
    LET ends == {t \in ReachableFrom(v, {bb}, {bb}) : JumpSuccessors(v, t) = {}}
    IN  CHOOSE n \in {Cardinality(t) : t \in ends} :
            \A t \in ends : n <= Cardinality(t)

\* path is a sequence of mask triples of jumps, each legal on the bitboard
\* the ones before it leave, from bb to a position with n pegs and no legal
\* jump
RECURSIVE PathEndsWith(_, _, _, _)
PathEndsWith(v, bb, path, n) ==
    IF Len(path) = 0
    THEN JumpSuccessors(v, bb) = {} /\ Cardinality(bb) = n
    ELSE /\ \E k \in 1..Len(GraphJumps(v)) :
                path[1] = <<{GraphJumps(v)[k][1]}, {GraphJumps(v)[k][2]},
                            {GraphJumps(v)[k][3]}>>
         /\ path[1][1] \subseteq bb /\ path[1][2] \subseteq bb
         /\ path[1][3] \cap bb = {}
         /\ PathEndsWith(v, (bb \ (path[1][1] \cup path[1][2])) \cup path[1][3],
                         Tail(path), n)

\* C19: a thread of the exhaustive solver that saw the cancellation flag
\* ends without storing its result in solution_cache and without
\* scheduling the callback with it
C19_CancelledResultIsDiscarded ==
    [][\A w \in WorkerIds :
            /\ workers[w].pc = "deliver" /\ workers[w].saw_cancel
            /\ workers'[w].pc = "free"
            => /\ solvers'[workers[w].sid].solution_cache
                    = solvers[workers[w].sid].solution_cache
               /\ after_queue' = after_queue]_vars

\* C17: the call _solve(bb) of a thread that saw no cancellation returns the
\* smallest number of pegs of a position without a legal jump reachable from
\* bb, and a path of jumps, each legal in its turn, to such a position with
\* that number of pegs; (popcount(bb), []) when bb has no legal jump; 1 and
\* a path of one move from two pegs that can jump
C17_SolveReturnsMinimumAndLegalPath ==
    \A w \in WorkerIds :
        workers[w].pc = "deliver" /\ ~workers[w].saw_cancel
            => LET bb == workers[w].snap
                   p == workers[w].out_pegs
                   path == workers[w].out
               IN  /\ p = MinPegsRemaining(version, bb)
                   /\ PathEndsWith(version, bb, path, p)
                   /\ JumpSuccessors(version, bb) = {}
                        => p = Cardinality(bb) /\ path = <<>>
                   /\ Cardinality(bb) = 2 /\ JumpSuccessors(version, bb) # {}
                        => p = 1 /\ Len(path) = 1

\* a search that gave up the first move it tried at some level
C17_Witness ==
    \E w \in WorkerIds :
        /\ workers[w].pc = "deliver" /\ ~workers[w].saw_cancel
        /\ Cardinality(workers[w].snap) >= 4
        /\ workers[w].calls > Len(workers[w].out) + 1
        /\ Len(workers[w].out) > 1

----------------------------------------------------------------------------
(* Properties of the threads of one solver object, checked under SpecSolver *)

\* C20: of two threads of one solver object that both still search, one has
\* seen the cancellation flag: start_solving lets no thread of the solver
\* go on uncancelled beside the thread it starts
C20_OneUncancelledWorkerPerSolver ==
    \A w1 \in WorkerIds, w2 \in WorkerIds :
        /\ w1 # w2
        /\ workers[w1].pc \in {"copy", "run"} /\ workers[w2].pc \in {"copy", "run"}
        /\ workers[w1].sid = workers[w2].sid
        => workers[w1].saw_cancel \/ workers[w2].saw_cancel

\* C18: the number of pegs a thread of the exhaustive solver returns, when
\* it saw no cancellation, is that of the recursion _solve on its start
\* bitboard, whatever the interactive context and the other thread of the
\* solver did during the search: two such runs from the same bitboard
\* return the same number
C18_MinPegsDependOnBitboardOnly ==
    /\ \A w \in WorkerIds :
            variant = "exhaustive" /\ workers[w].pc = "deliver" /\ ~workers[w].saw_cancel
                => workers[w].out_pegs = _solve(version, workers[w].snap).pegs
    /\ \A w1 \in WorkerIds, w2 \in WorkerIds :
            /\ variant = "exhaustive"
            /\ workers[w1].pc = "deliver" /\ ~workers[w1].saw_cancel
            /\ workers[w2].pc = "deliver" /\ ~workers[w2].saw_cancel
            /\ workers[w1].snap = workers[w2].snap
            => workers[w1].out_pegs = workers[w2].out_pegs

\* two threads that ran at the same time from one bitboard have both ended
C18_Witness ==
    \E w1 \in WorkerIds, w2 \in WorkerIds :
        /\ w1 # w2 /\ variant = "exhaustive"
        /\ workers[w1].pc = "deliver" /\ ~workers[w1].saw_cancel
        /\ workers[w2].pc = "deliver" /\ ~workers[w2].saw_cancel
        /\ workers[w1].snap = workers[w2].snap
        /\ workers[w1].calls > 3

\* search_cancel of the solver of thread w is set while the thread has
\* a read of the flag ahead of it (the entry of _solve_dc or of _solve)
FlagSetFor(w) ==
    /\ workers[w].pc \in {"copy", "run"}
    /\ solvers[workers[w].sid].search_cancel

\* C21: once the cancellation flag of a search is set, the thread of that
\* search eventually reads the flag as set, under fair scheduling of the
\* thread, whatever calls of cancel_solving and start_solving come between
C21_WorkerEventuallySeesCancel ==
    \A w \in WorkerIds : FlagSetFor(w) ~> workers[w].saw_cancel

\* C22: every search started with start_solving(callback) eventually hands
\* its callback to the event loop, also when cancel_solving follows the
\* start at once, and the interactive context never waits forever for a
\* thread: the join of cancel_solving returns
C22_CallbackDeliveredAndGuiFree ==
    /\ \A w \in WorkerIds :
            workers[w].pc # "free" ~> (workers[w].pc = "free" /\ workers[w].cb = "None")
    /\ (gui.at = "join") ~> (gui.at = "idle")

\* C23: in the game of main.py, on a board a jump has left without a legal
\* move, check_game_over returns True and game_over_flag is set after the
\* click that made the jump, and the status is the victory exactly when
\* one peg remains
C23_StuckBoardIsGameOver ==
    Len(get_valid_moves(board)) = 0 =>
        /\ check_game_over(version, board)
        /\ (m_last = "jump" => game_over_flag)
        /\ (GameOverStatus(version, board) = "Victory" <=> CountPegs(board) = 1)

\* C24: in the pegdc.py game every jump that run_autoplay_step applies to
\* the board of the game is a legal jump of that board when it is applied,
\* whatever clicks, undo, hint, autoplay starts and stops and restarts came
\* before
C24_AutoplayAppliesLegalMoves ==
    [][(variant = "exhaustive" /\ autoplay_running' /\ history' = Append(history, pegs))
            => InLegalMoves(autoplay_moves'[autoplay_index'])]_vars

\* the row (by_row) or the column of hole i
AxisOf(v, i, by_row) == GraphNodes(v)[i + 1][IF by_row THEN 1 ELSE 2]

\* the place of x in the list s
IndexIn(s, x) == CHOOSE k \in 1..Len(s) : s[k] = x

\* C25: _spatial_split of a region of n >= 4 holes returns two disjoint
\* halves whose union is the region, the left one the first n div 2 holes
\* and the right one the rest of the region in the order of the row (or
\* the column), holes of one row (column) in the order they came in; the
\* sizes differ by at most one, each half is smaller than the region, and
\* the regions of the base case have 2 or 3 holes
C25_SplitHalvesSortedRegion ==
    \A w \in WorkerIds :
        LET st == workers[w].last
            s == st.left \o st.right
            n == Len(st.nodes)
        IN  /\ st.kind = "split" =>
                /\ n >= 4
                /\ Len(s) = n /\ SetOf(s) = SetOf(st.nodes)
                /\ SetOf(st.left) \cap SetOf(st.right) = {}
                /\ Len(st.left) = n \div 2
                /\ Len(st.right) - Len(st.left) \in {0, 1}
                /\ Len(st.left) < n /\ Len(st.right) < n
                /\ \A i \in 1..n, j \in 1..n :
                        i < j =>
                            /\ AxisOf(version, s[i], st.by_row) <= AxisOf(version, s[j], st.by_row)
                            /\ AxisOf(version, s[i], st.by_row) = AxisOf(version, s[j], st.by_row)
                                    => IndexIn(st.nodes, s[i]) < IndexIn(st.nodes, s[j])
            /\ st.kind = "base" => Len(st.nodes) \in {2, 3}

\* a split by column has put the holes of a region with an odd number of
\* holes in another order
C25_Witness ==
    \E w \in WorkerIds :
        /\ workers[w].last.kind = "split" /\ ~workers[w].last.by_row
        /\ workers[w].last.left \o workers[w].last.right # workers[w].last.nodes
        /\ Len(workers[w].last.nodes) % 2 = 1

\* the pegs after the jumps of moves, applied in order to the pegs p
RECURSIVE Replayed(_, _)
Replayed(p, moves) ==
    IF Len(moves) = 0 THEN p
    ELSE Replayed([p EXCEPT ![moves[1][1]] = 0, ![moves[1][2]] = 0, ![moves[1][3]] = 1],
                  Tail(moves))

\* the pegs the k-th jump of moves is applied to
PegsBefore(p, moves, k) == Replayed(p, SubSeq(moves, 1, k - 1))

\* the three holes of jump j lie in the set of holes S
InRegion(j, S) == {j[1], j[2], j[3]} \subseteq S

\* the jumps the loop of a base or a combine step st chooses from: the
\* jumps of the board inside the region, for a combine step those that
\* touch both halves
StepScope(v, st) ==
    {j \in SetOf(GraphJumps(v)) :
        IF st.kind = "base" THEN InRegion(j, SetOf(st.nodes))
        ELSE /\ InRegion(j, SetOf(st.left) \cup SetOf(st.right))
             /\ {j[1], j[2], j[3]} \cap SetOf(st.left) # {}
             /\ {j[1], j[2], j[3]} \cap SetOf(st.right) # {}}

\* the jumps of a step are jumps of its scope, each legal on the pegs it
\* is applied to, the thread holds the pegs they leave, and no jump of
\* the scope is legal on these
StepExhaustsScope(v, wk) ==
    LET st == wk.last
    IN  /\ \A k \in 1..Len(st.moves) :
                /\ st.moves[k] \in StepScope(v, st)
                /\ Legal(PegsBefore(st.from, st.moves, k), st.moves[k])
        /\ wk.pegs = Replayed(st.from, st.moves)
        /\ \A j \in StepScope(v, st) : ~Legal(wk.pegs, j)

\* C26: the base case (a region of at most 3 holes) applies only jumps
\* whose three holes lie in the region, each legal on the scratch pegs when
\* it is applied, and leaves no legal jump inside the region
C26_BaseCaseStaysInRegion ==
    \A w \in WorkerIds :
        workers[w].last.kind = "base" =>
            /\ Len(workers[w].last.nodes) <= 3
            /\ StepExhaustsScope(version, workers[w])

\* a base case has run on a region of 3 holes where a legal jump started
\* and had its middle hole, and ended outside: it did not apply it
C26_Witness ==
    \E w \in WorkerIds :
        /\ workers[w].last.kind = "base" /\ Len(workers[w].last.nodes) = 3
        /\ workers[w].pegs = workers[w].last.from
        /\ \E j \in SetOf(GraphJumps(version)) :
                /\ {j[1], j[2]} \subseteq SetOf(workers[w].last.nodes)
                /\ Legal(workers[w].last.from, j)

\* C27: the combine step applies only jumps whose three holes lie in the
\* union of the halves and touch both, each legal when it is applied, and
\* leaves no legal jump across the boundary
C27_CombineAppliesCrossBoundaryJumps ==
    \A w \in WorkerIds :
        workers[w].last.kind = "combine" => StepExhaustsScope(version, workers[w])

\* a combine step has applied two jumps or more and left a legal jump
\* inside one of its halves
C27_Witness ==
    \E w \in WorkerIds :
        /\ workers[w].last.kind = "combine" /\ Len(workers[w].last.moves) > 1
        /\ \E j \in SetOf(GraphJumps(version)) :
                /\ InRegion(j, SetOf(workers[w].last.left))
                /\ Legal(workers[w].pegs, j)

\* 10 x the Manhattan distance of the middle hole from (3, 3) + that of
\* the start hole
StatedPriority(v, j) ==
    LET mid == GraphNodes(v)[j[2] + 1]
        start == GraphNodes(v)[j[1] + 1]
    IN  10 * (Abs(mid[1] - 3) + Abs(mid[2] - 3)) + (Abs(start[1] - 3) + Abs(start[2] - 3))

\* the candidates of the iteration that applied the k-th move of step st:
\* the jumps of its scope legal on the pegs the move is applied to
Candidates(v, st, k) ==
    {j \in StepScope(v, st) : Legal(PegsBefore(st.from, st.moves, k), j)}

\* C28: every move the region solver applies, in the base case and in the
\* combine step, has the maximum priority among the legal candidates of its
\* iteration
C28_AppliedMoveHasMaximumPriority ==
    \A w \in WorkerIds :
        LET st == workers[w].last
        IN  st.kind \in {"base", "combine"} =>
                \A k \in 1..Len(st.moves) :
                    /\ st.moves[k] \in Candidates(version, st, k)
                    /\ \A j \in Candidates(version, st, k) :
                            StatedPriority(version, j) <= StatedPriority(version, st.moves[k])

\* a move was applied in an iteration that had candidates of three
\* priorities or more
C28_Witness ==
    \E w \in WorkerIds :
        LET st == workers[w].last
        IN  /\ st.kind = "combine"
            /\ \E k \in 1..Len(st.moves) :
                    Cardinality({StatedPriority(version, j) :
                                    j \in Candidates(version, st, k)}) >= 3

\* C29: when several legal candidates have the maximum priority, the
\* region solver applies the first of them in the order of valid_jumps
C29_FirstOfMaximalCandidates ==
    \A w \in WorkerIds :
        LET st == workers[w].last
        IN  st.kind \in {"base", "combine"} =>
                \A k \in 1..Len(st.moves) :
                    \A j \in Candidates(version, st, k) :
                        StatedPriority(version, j) = StatedPriority(version, st.moves[k])
                            => IndexIn(GraphJumps(version), st.moves[k])
                                    <= IndexIn(GraphJumps(version), j)

\* the moves the calls of _solve_dc on stack hold, from the root call on
RECURSIVE HeldMoves(_)
HeldMoves(stack) ==
    IF Len(stack) = 0 THEN <<>>
    ELSE stack[1].moves \o HeldMoves(Tail(stack))

\* the moves thread wk has applied, in the order of the lists that hold them
AppliedMoves(wk) == IF wk.pc = "deliver" THEN wk.out ELSE HeldMoves(wk.stack)

\* moves are jumps inside the half L or inside the half R, those of L first
LeftThenRight(moves, L, R) ==
    /\ \A i \in 1..Len(moves) :
            InRegion(moves[i], SetOf(L)) \/ InRegion(moves[i], SetOf(R))
    /\ \A i \in 1..Len(moves), j \in 1..Len(moves) :
            i < j => ~(InRegion(moves[i], SetOf(R)) /\ InRegion(moves[j], SetOf(L)))

\* C30: the list a call of _solve_dc returns is the moves of its left
\* half, then those of its right half, then the cross-boundary moves, and
\* that is the order in which the moves were applied to the scratch pegs:
\* at every moment of a search the moves returned so far, replayed on the
\* pegs the thread copied, give the scratch pegs, as does the result of
\* the root call
C30_ResultOrderIsApplicationOrder ==
    \A w \in WorkerIds :
        LET wk == workers[w]
            n == Len(wk.out) - Len(wk.last.moves)
        IN  variant = "region" /\ wk.pc \in {"run", "deliver"} =>
                /\ Replayed(wk.snap, AppliedMoves(wk)) = wk.pegs
                /\ \A k \in 1..Len(wk.stack) :
                        wk.stack[k].phase = "combine" =>
                            LeftThenRight(wk.stack[k].moves, wk.stack[k].left,
                                          wk.stack[k].right)
                /\ wk.pc = "deliver" /\ wk.last.kind = "combine" =>
                        /\ n >= 0
                        /\ SubSeq(wk.out, n + 1, Len(wk.out)) = wk.last.moves
                        /\ LeftThenRight(SubSeq(wk.out, 1, n), wk.last.left, wk.last.right)

\* a search has returned moves of its left half, of its right half and
\* across the two
C30_Witness ==
    \E w \in WorkerIds :
        LET wk == workers[w]
        IN  /\ variant = "region" /\ wk.pc = "deliver" /\ ~wk.saw_cancel
            /\ wk.last.kind = "combine" /\ Len(wk.last.moves) > 1
            /\ \E i \in 1..Len(wk.out) : InRegion(wk.out[i], SetOf(wk.last.left))
            /\ \E i \in 1..Len(wk.out) : InRegion(wk.out[i], SetOf(wk.last.right))

\* C31: the region solver tests the cancellation flag at the top of every
\* call of _solve_dc and of every iteration of its two priority loops: a
\* step a thread takes while the flag of its solver is set applies no move
\* to the scratch pegs
C31_NoMoveAppliedOnceCancelled ==
    [][\A w \in WorkerIds :
            /\ variant = "region" /\ workers[w].pc = "run"
            /\ solvers[workers[w].sid].search_cancel
            /\ workers'[w] # workers[w]
            => workers'[w].pegs = workers[w].pegs]_vars

\* the jumps of valid_jumps legal on bitboard bb, by their place in the list
LegalJumpIndices(v, bb) ==
    {i \in 1..Len(GraphJumps(v)) :
        /\ GraphJumps(v)[i][1] \in bb /\ GraphJumps(v)[i][2] \in bb
        /\ GraphJumps(v)[i][3] \notin bb}

\* bb after the i-th jump of valid_jumps
AfterJumpIndex(v, bb, i) ==
    (bb \ {GraphJumps(v)[i][1], GraphJumps(v)[i][2]}) \cup {GraphJumps(v)[i][3]}

\* every move of path is, among the legal jumps of the bitboard it is made
\* on that lead to the fewest pegs, the first in the order of move_masks
RECURSIVE FirstBestPath(_, _, _)
FirstBestPath(v, bb, path) ==
    \/ Len(path) = 0
    \/ \E k \in LegalJumpIndices(v, bb) :
            /\ path[1] = <<{GraphJumps(v)[k][1]}, {GraphJumps(v)[k][2]}, {GraphJumps(v)[k][3]}>>
            /\ MinPegsRemaining(v, AfterJumpIndex(v, bb, k)) = MinPegsRemaining(v, bb)
            /\ \A i \in LegalJumpIndices(v, bb) :
                    i < k => MinPegsRemaining(v, AfterJumpIndex(v, bb, i))
                                > MinPegsRemaining(v, bb)
            /\ FirstBestPath(v, AfterJumpIndex(v, bb, k), Tail(path))

\* C32: of the legal first moves whose subtree reaches the smallest number
\* of pegs the exhaustive solver keeps the first in the order of
\* move_masks, at every level of the path it returns, and a call of _solve
\* whose best is 1 peg explores no further move: no call that waits for a
\* recursive call holds a best of 1
C32_FirstBestKeptAndStopAtOnePeg ==
    \A w \in WorkerIds :
        /\ variant = "exhaustive" /\ workers[w].pc = "deliver" /\ ~workers[w].saw_cancel
                => FirstBestPath(version, workers[w].snap, workers[w].out)
        /\ variant = "exhaustive" /\ workers[w].pc = "run"
                => \A k \in 1..Len(workers[w].stack) : workers[w].stack[k].best_pegs # 1

\* a search has returned a path to 1 peg from a bitboard where a later
\* first move leads to 1 peg as well
C32_Witness ==
    \E w \in WorkerIds :
        /\ variant = "exhaustive" /\ workers[w].pc = "deliver" /\ ~workers[w].saw_cancel
        /\ workers[w].out_pegs = 1 /\ Len(workers[w].out) > 1
        /\ \E i \in LegalJumpIndices(version, workers[w].snap) :
                /\ workers[w].out[1] # <<{GraphJumps(version)[i][1]}, {GraphJumps(version)[i][2]},
                                          {GraphJumps(version)[i][3]}>>
                /\ MinPegsRemaining(version, AfterJumpIndex(version, workers[w].snap, i)) = 1

\* C33: a call of _solve entered while the cancellation flag is set returns
\* the number of pegs of its own bitboard and the empty path, and explores
\* no move: no call is left waiting for it, the root call ends the search
\* with that value, and a caller takes that number of pegs with the path
\* of its own move alone when it is smaller than its best
C33_CancelledCallReturnsOwnCount ==
    [][\A w \in WorkerIds :
            /\ variant = "exhaustive" /\ workers[w].pc = "run"
            /\ solvers[workers[w].sid].search_cancel
            /\ workers'[w] # workers[w]
            => LET wk == workers[w]
                   n == Len(wk.stack)
                   f == wk.stack[n]
                   g == workers'[w].stack[n]
               IN  /\ workers'[w].saw_cancel
                   /\ Len(workers'[w].stack) <= n
                   /\ n = 0 => /\ workers'[w].pc = "deliver"
                                /\ workers'[w].out = <<>>
                                /\ workers'[w].out_pegs = Cardinality(wk.call)
                   /\ n > 0 /\ Len(workers'[w].stack) = n =>
                        /\ g.idx = f.idx + 1 /\ g.bb = f.bb
                        /\ IF Cardinality(wk.call) < f.best_pegs
                           THEN /\ g.best_pegs = Cardinality(wk.call)
                                /\ g.best_path = <<f.moves[f.idx]>>
                           ELSE /\ g.best_pegs = f.best_pegs
                                /\ g.best_path = f.best_path]_vars

\* a cancelled search has ended with a path that stops on a position with a
\* legal jump: a call entered on that position returned without exploring
C33_Witness ==
    \E w \in WorkerIds :
        /\ variant = "exhaustive" /\ workers[w].pc = "deliver" /\ workers[w].saw_cancel
        /\ Len(workers[w].out) > 0
        /\ workers[w].out_pegs > MinPegsRemaining(version, workers[w].snap)

\* C34: the bitboard of the solver refines the peg list of the game. On the
\* board of the pegdc.py game, bit i of state_to_bitboard() is set iff
\* pegs[i] = 1; the mask triple of a jump passes the test of _solve iff the
\* jump is in get_legal_moves(); apply_move gives the bitboard of the list
\* execute_move leaves, for every legal jump; peg_count is get_peg_count;
\* and bit_length() - 1 takes each mask back to its hole
C34_BitboardRefinesPegList ==
    variant = "exhaustive" =>
        LET bb == state_to_bitboard(pegs)
            legal == SetOf(LegalMoves(version, pegs))
        IN  /\ \A i \in DOMAIN pegs : i \in bb <=> pegs[i] = 1
            /\ peg_count(bb) = get_peg_count(pegs)
            /\ \A k \in 1..Len(GraphJumps(version)) :
                    LET j == GraphJumps(version)[k]
                        mk == SolverMasks(version)[k]
                    IN  /\ (bb \cap mk[1] # {} /\ bb \cap mk[2] # {} /\ bb \cap mk[3] = {})
                                <=> j \in legal
                        /\ j \in legal =>
                                apply_move(bb, mk) =
                                    state_to_bitboard([pegs EXCEPT ![j[1]] = 0, ![j[2]] = 0,
                                                                   ![j[3]] = 1])
                        /\ <<BitIndex(mk[1]), BitIndex(mk[2]), BitIndex(mk[3])>> = j

\* the game has a board with two legal jumps or more, and a search has
\* handed a path, converted to holes, to the event loop
C34_Witness ==
    /\ variant = "exhaustive"
    /\ Len(LegalMoves(version, pegs)) > 1
    /\ Len(after_queue) > 0 /\ Len(after_queue[1].solution) > 0

\* C35: in the main.py game every board change a click makes is a legal
\* jump of the board before the click (a peg on the source and on the
\* middle cell, none on the destination) and takes exactly one peg off,
\* whatever selections, auto-play starts and stops and undos came before
C35_ClickMoveIsLegalJump ==
    m_last = "jump" =>
        /\ CountPegs(board) = CountPegs(m_pre) - 1
        /\ \E k \in 1..Len(get_valid_moves(m_pre)) :
                LET mv == get_valid_moves(m_pre)[k]
                IN  board = Jumped(m_pre, mv[1], mv[2], mv[3], mv[4])

----------------------------------------------------------------------------
(* The GameFrame of Pegsolitaire5.py and the searches a restart outlives,
   checked under SpecRegion *)

\* the event loop runs the callback a search started before restart_game
\* queued, with a solution
LateCallbackRuns ==
    /\ variant = "region" /\ gui.at = "idle"
    /\ Len(after_queue) > 0 /\ after_queue' = Tail(after_queue)
    /\ after_queue[1].before_restart
    /\ Len(after_queue[1].solution) > 0

\* C36: the result of a search started before restart_game is not used on
\* the restarted game: the callback of the old thread neither starts
\* autoplay with its solution (no move of it is played, autoplay does not
\* run after it) nor shows a hint from it (it is not stored as the solution
\* the hint is drawn from)
C36_ResultBeforeRestartIsNotUsed ==
    [][LateCallbackRuns =>
            /\ pegs' = pegs
            /\ ~autoplay_running'
            /\ solvers'[solver].solution_cache # after_queue[1].solution]_vars

\* the step is a call of execute_move(move) by a handler of the frame
FrameExecutes(move) ==
    /\ f_last' = "gui"
    /\ pegs' = AfterMove(pegs, move)
    /\ history' = Append(history, pegs)

\* C37: every execute_move of the GameFrame of the region-shrinking game, by
\* a click or by an autoplay step, the steps a late or stale result drives
\* included, gets a move that is legal on the board of that moment: a step
\* that makes the history longer is a handler of the frame applying a jump
\* of get_legal_moves() and pushing the board it found; so every hole holds
\* 0 or 1 and get_peg_count() is the number of holes
\* less one less len(history)
C37_FrameExecutesLegalMovesOnly ==
    /\ [](variant = "region" =>
            /\ \A i \in DOMAIN pegs : pegs[i] \in {0, 1}
            /\ get_peg_count(pegs) = (Cardinality(DOMAIN pegs) - 1) - Len(history))
    /\ [][variant = "region" /\ Len(history') > Len(history) =>
            \E k \in 1..Len(LegalMoves(version, pegs)) :
                FrameExecutes(LegalMoves(version, pegs)[k])]_vars

\* autoplay has played the first move of a solution that a search started
\* before restart_game delivered, on the game the restart made
C37_Witness ==
    /\ variant = "region"
    /\ \E w \in WorkerIds : workers[w].pc = "free" /\ workers[w].before_restart
    /\ autoplay_running /\ autoplay_index = 1 /\ Len(history) = 1
    /\ clicks = 2 /\ after_queue = <<>>

----------------------------------------------------------------------------
(* The coverage of the jumps by the region solver, checked under SpecSolver *)

\* the base cases and the combine steps of an uncancelled call
\* _solve_dc(node_indices, pegs, by_row), in the order they run
RECURSIVE DcSteps(_, _, _)
DcSteps(v, node_indices, by_row) ==
    IF Len(node_indices) <= 3
    THEN <<[kind |-> "base", nodes |-> node_indices, left |-> <<>>, right |-> <<>>]>>
    ELSE LET halves == _spatial_split(v, node_indices, by_row)
         IN  DcSteps(v, halves[1], ~by_row) \o DcSteps(v, halves[2], ~by_row)
                \o <<[kind |-> "combine", nodes |-> node_indices,
                      left |-> halves[1], right |-> halves[2]]>>

\* step st examines jump j: the test of its loop on the three holes
Examines(st, j) ==
    IF st.kind = "base" THEN InRegion(j, SetOf(st.nodes))
    ELSE /\ InRegion(j, SetOf(st.left) \cup SetOf(st.right))
         /\ {j[1], j[2], j[3]} \cap SetOf(st.left) # {}
         /\ {j[1], j[2], j[3]} \cap SetOf(st.right) # {}

\* C38: a search of the region solver that never read search_cancel as True
\* returns the empty sequence if and only if its snapshot has no legal
\* move; and every jump of the board is examined by exactly one step of
\* _solve_dc(all_nodes), a base case or the combine step of one split
C38_EmptyResultIffNoLegalMove ==
    \A w \in WorkerIds :
        variant = "region" /\ workers[w].pc = "deliver" /\ ~workers[w].saw_cancel =>
            LET steps == DcSteps(version, AllNodes(version), TRUE)
            IN  /\ workers[w].out = <<>> <=> Len(LegalMoves(version, workers[w].snap)) = 0
                /\ \A k \in 1..Len(GraphJumps(version)) :
                        Cardinality({n \in 1..Len(steps) :
                                        Examines(steps[n], GraphJumps(version)[k])}) = 1

\* an uncancelled search on a snapshot with a legal move has ended
C38_Witness ==
    \E w \in WorkerIds :
        /\ variant = "region" /\ workers[w].pc = "deliver" /\ ~workers[w].saw_cancel
        /\ Len(LegalMoves(version, workers[w].snap)) > 0
        /\ Len(workers[w].out) > 0

\* an uncancelled search on a snapshot without a legal move has ended
C38_StuckSnapshotSearched ==
    \E w \in WorkerIds :
        /\ variant = "region" /\ workers[w].pc = "deliver" /\ ~workers[w].saw_cancel
        /\ Len(LegalMoves(version, workers[w].snap)) = 0

----------------------------------------------------------------------------
(* The end of autoplay in the region-shrinking game, checked under
   SpecRegionFair *)

\* C39: autoplay of the region-shrinking game, once started, stops by
\* itself: from every state with autoplay_running a state without it is
\* reached, whether or not the player clicks again, when the threads, the
\* timers and the queued callbacks are scheduled fairly
C39_AutoplayEventuallyStops ==
    (variant = "region" /\ autoplay_running) ~> ~autoplay_running

\* autoplay started by the one click on Autoplay has played the moves of
\* its last plan and has stopped on a board without a legal move
C39_Witness ==
    /\ variant = "region" /\ clicks = 1
    /\ ~autoplay_running /\ ~searching
    /\ Len(autoplay_moves) > 0 /\ autoplay_index = Len(autoplay_moves)
    /\ is_game_over(version, pegs)
    /\ Len(history) > Len(autoplay_moves)

====
